---- MODULE Spec2Model ----
(***************************************************************************)
(* Model of the query assembly engine of frappe/database/query.py:         *)
(* Engine.get_query and the filter parser, field permission filter and     *)
(* permission condition builder it calls.  One get_query call is a run of  *)
(* the stage actions below, in the order of the code.                      *)
(***************************************************************************)
EXTENDS Integers, Sequences, FiniteSets, TLC

VARIABLES
    args,     \* the arguments of the get_query call
    env,      \* the collaborators' answers (metadata, permission oracle, hooks)
    pc,       \* position of the call inside get_query
    exc,      \* the exception raised by the call, "" while none
    fields,   \* self.fields
    query,    \* self.query
    engine,   \* per-call Engine attributes (aliases, permitted-field cache)
    result,   \* what execute_query returned for the plan, << >> before it ran
    invitation, \* the User Invitation documents by name: the loaded instance and its saved row
    outbox,   \* the emails frappe.sendmail was asked to send, oldest first
    suspended, \* the get_query call of a concurrent request while it does not run, NoRequest if none
    returned, \* what the earlier get_query calls of the requests returned or raised, oldest first
    endpoint  \* the REST request document_list serves: limit and start of its form_dict, the response

vars == <<args, env, pc, exc, fields, query, engine, result, invitation, outbox, suspended, returned, endpoint>>

(***************************************************************************)
(* Python values.  The tag k sorts before every other field name.          *)
(***************************************************************************)
PyNone == [k |-> "none"]
PyStr(s) == [k |-> "str", v |-> s]
PyInt(n) == [k |-> "int", v |-> n]
PyBool(b) == [k |-> "bool", v |-> b]
PyList(q) == [k |-> "list", v |-> q]
PyDict(q) == [k |-> "dict", v |-> q]

IsStr(x) == x.k = "str"
IsListOrTuple(x) == x.k = "list"
IsFilterValue(x) == x.k \in {"str", "int", "bool"}

\* truth value of a Python value, isinstance(x, int)
Truthy(x) ==
    CASE x.k = "none" -> FALSE
      [] x.k = "int" -> x.v # 0
      [] x.k = "bool" -> x.v
      [] x.k = "str" -> x.v # ""
      [] x.k = "list" -> x.v # << >>
      [] x.k = "float" -> x.v # 0
      [] OTHER -> TRUE
IsInt(x) == x.k \in {"int", "bool"}

convert_to_value(o) == IF o.k = "bool" THEN PyInt(IF o.v THEN 1 ELSE 0) ELSE o

lower(s) ==
    CASE s = "AND" -> "and"
      [] s = "And" -> "and"
      [] s = "OR" -> "or"
      [] s = "Or" -> "or"
      [] s = "XOR" -> "xor"
      [] s = "IN" -> "in"
      [] s = "AS" -> "as"
      [] s = "Sum" -> "sum"
      [] OTHER -> s

(***************************************************************************)
(* Constants of the code.                                                  *)
(***************************************************************************)
OPTIONAL_FIELDS == {"_user_tags", "_comments", "_assign", "_liked_by"}
default_fields == {"name", "owner", "creation", "modified", "modified_by", "docstatus", "idx"}
child_table_fields == {"parent", "parentfield", "parenttype"}
OPERATOR_MAP == {"=", "!=", "<", ">", "<=", ">=", "in", "not in", "like", "not like", "between", "is"}

(***************************************************************************)
(* Metadata provider: the doctypes of the model.                           *)
(*   Doc    title, secret, link_field -> Target, ref_field -> Target       *)
(*          (ignore_user_permissions), items -> Child (Table)              *)
(*   Target public_field, restricted_field                                 *)
(*   Child  qty, cost                                                      *)
(***************************************************************************)
NoField == [fieldname |-> "", fieldtype |-> "", options |-> "", ignore_user_permissions |-> FALSE]
DF(fn, ft, opt, iup) == [fieldname |-> fn, fieldtype |-> ft, options |-> opt, ignore_user_permissions |-> iup]

MetaFields(doctype) ==
    CASE doctype = "Doc" ->
            << DF("title", "Data", "", FALSE), DF("secret", "Data", "", FALSE),
               DF("link_field", "Link", "Target", FALSE), DF("ref_field", "Link", "Target", TRUE),
               DF("items", "Table", "Child", FALSE) >>
      [] doctype = "Target" ->
            << DF("public_field", "Data", "", FALSE), DF("restricted_field", "Data", "", FALSE) >>
      [] doctype = "Child" ->
            << DF("qty", "Int", "", FALSE), DF("cost", "Int", "", FALSE) >>
      [] OTHER -> << >>

\* meta.has_field, meta.get_field over the field list of a doctype
HasFieldIn(dfs, fieldname) == \E i \in 1..Len(dfs) : dfs[i].fieldname = fieldname
FieldIn(dfs, fieldname) ==
    IF HasFieldIn(dfs, fieldname)
    THEN dfs[CHOOSE j \in 1..Len(dfs) : dfs[j].fieldname = fieldname]
    ELSE NoField

has_field(doctype, fieldname) == HasFieldIn(MetaFields(doctype), fieldname)
get_field(doctype, fieldname) == FieldIn(MetaFields(doctype), fieldname)

IsLinkDF(df) == df.fieldtype = "Link"
IsTableDF(df) == df.fieldtype = "Table"
get_link_fields(doctype) == SelectSeq(MetaFields(doctype), IsLinkDF)
get_table_fields(doctype) == SelectSeq(MetaFields(doctype), IsTableDF)

\* TABLE_NAME_PATTERN ^[\w -]*$ on the entity names of the model
TableNameChars(name) ==
    CASE name = "Doc" -> <<"D", "o", "c">>
      [] name = "Child" -> <<"C", "h", "i", "l", "d">>
      [] name = "Target" -> <<"T", "a", "r", "g", "e", "t">>
      [] name = "Doc;x" -> <<"D", "o", "c", ";", "x">>
      [] name = "Doc_x" -> <<"D", "o", "c", "_", "x">>
      [] name = "Doc-x 1" -> <<"D", "o", "c", "-", "x", " ", "1">>
      [] OTHER -> << >>
WordChars == {"D", "o", "c", "C", "h", "i", "l", "d", "T", "a", "r", "g", "e", "t", "x", "1", "_", " ", "-"}
TABLE_NAME_PATTERN(name) == \A i \in 1..Len(TableNameChars(name)) : TableNameChars(name)[i] \in WordChars

(***************************************************************************)
(* Field strings.  The strings of the model and what the regular           *)
(* expressions and substring tests of the code find in each of them.       *)
(***************************************************************************)
LexRec(bt, dot, left, right, btdoc, btfield, simple, tabname, fname, allowed, childdoc) ==
    [bt |-> bt, dot |-> dot, left |-> left, right |-> right, btdoc |-> btdoc, btfield |-> btfield,
     simple |-> simple, tabname |-> tabname, fname |-> fname, allowed |-> allowed, childdoc |-> childdoc]
LexSimple(s) == LexRec(FALSE, FALSE, "", "", "", "", TRUE, "", s, TRUE, "")
LexDotted(l, r) == LexRec(FALSE, TRUE, l, r, "", "", FALSE, "", "", TRUE, "")

SimpleNames == {"name", "owner", "title", "secret", "link_field", "ref_field", "items", "idx",
                "public_field", "restricted_field", "qty", "cost", "parent", "parentfield"} \cup OPTIONAL_FIELDS

\* (the backtick is written ^ in the strings of the model)
\* bt: a backtick in s; dot: "." in s; left, right: s.split(".", 1); btdoc, btfield: the groups of
\* BACKTICK_FIELD_PARSE_REGEX; simple: SIMPLE_FIELD_PATTERN; tabname, fname: the groups of
\* FIELD_PARSE_REGEX; allowed: ALLOWED_FIELD_PATTERN; childdoc: group 1 of CHILD_TABLE_FIELD_PATTERN
Lex(s) ==
    CASE s \in SimpleNames -> LexSimple(s)
      [] s = "link_field.public_field" -> LexDotted("link_field", "public_field")
      [] s = "link_field.restricted_field" -> LexDotted("link_field", "restricted_field")
      [] s = "ref_field.public_field" -> LexDotted("ref_field", "public_field")
      [] s = "items.qty" -> LexDotted("items", "qty")
      [] s = "items.cost" -> LexDotted("items", "cost")
      [] s = "title.x" -> LexDotted("title", "x")
      [] s = "^tabDoc^.^title^" -> LexRec(TRUE, TRUE, "^tabDoc^", "^title^", "Doc", "title", FALSE, "tabDoc", "title", TRUE, "Doc")
      [] s = "^tabDoc^.^secret^" -> LexRec(TRUE, TRUE, "^tabDoc^", "^secret^", "Doc", "secret", FALSE, "tabDoc", "secret", TRUE, "Doc")
      [] s = "^tabTarget^.^restricted_field^" -> LexRec(TRUE, TRUE, "^tabTarget^", "^restricted_field^", "Target", "restricted_field", FALSE, "tabTarget", "restricted_field", TRUE, "Target")
      [] s \in {"^title^", "title as t1", "^title^ as t1", "title as ^my alias^"} ->
            LexRec(s # "title as t1", FALSE, "", "", "", "", FALSE, "", "title", TRUE, "")
      [] s \in {"tabDoc.title", "tabDoc.title as t1"} ->
            LexRec(FALSE, TRUE, "tabDoc", "title", "", "", FALSE, "tabDoc", "title", TRUE, "Doc")
      [] s \in {"^title", "title^", "^title x^"} ->
            LexRec(TRUE, FALSE, "", "", "", "", FALSE, "", "", FALSE, "")
      [] s = "tabDoc.^title" ->
            LexRec(TRUE, TRUE, "tabDoc", "^title", "", "", FALSE, "", "", FALSE, "")
      [] s = "^secret^" -> LexRec(TRUE, FALSE, "", "", "", "", FALSE, "", "secret", TRUE, "")
      [] s = "tabDoc.secret" -> LexRec(FALSE, TRUE, "tabDoc", "secret", "", "", FALSE, "tabDoc", "secret", TRUE, "Doc")
      [] s = "tabChild.qty" -> LexRec(FALSE, TRUE, "tabChild", "qty", "", "", FALSE, "tabChild", "qty", TRUE, "Child")
      [] s = "title;" -> LexRec(FALSE, FALSE, "", "", "", "", FALSE, "", "", FALSE, "")
      [] OTHER -> LexRec(FALSE, FALSE, "", "", "", "", FALSE, "", "", FALSE, "")

(***************************************************************************)
(* Parsed fields (pypika Field, DynamicTableField, ChildQuery).            *)
(***************************************************************************)
NoDyn == [t |-> "None"]
Field(table, name) == [t |-> "Field", table |-> table, name |-> name, alias |-> ""]
LinkTableField(doctype, fieldname, parent_doctype, link_fieldname) ==
    [t |-> "LinkTableField", doctype |-> doctype, fieldname |-> fieldname,
     parent_doctype |-> parent_doctype, link_fieldname |-> link_fieldname, alias |-> ""]
ChildTableField(doctype, fieldname, parent_doctype, parent_fieldname) ==
    [t |-> "ChildTableField", doctype |-> doctype, fieldname |-> fieldname,
     parent_doctype |-> parent_doctype, parent_fieldname |-> parent_fieldname, alias |-> ""]
\* ChildQuery.__init__: on a field that is not a table field it returns before setting anything
ChildQuery_df(df, fieldname, flds, parent_doctype) ==
    IF df.fieldtype # "Table"
    THEN [t |-> "ChildQuery", fieldname |-> "", fields |-> << >>, parent_doctype |-> "",
          doctype |-> "", init |-> FALSE]
    ELSE [t |-> "ChildQuery", fieldname |-> fieldname, fields |-> flds, parent_doctype |-> parent_doctype,
          doctype |-> df.options, init |-> TRUE]
ChildQuery(fieldname, flds, parent_doctype) ==
    ChildQuery_df(get_field(parent_doctype, fieldname), fieldname, flds, parent_doctype)

IsDynamic(f) == f.t \in {"LinkTableField", "ChildTableField"}

\* the end of DynamicTableField.parse: the handler for the field type of linked_field
DynamicTableField_of(linked_field, lx, doctype) ==
    IF linked_field.fieldtype = "Link"
    THEN LinkTableField(linked_field.options, lx.right, doctype, lx.left)
    ELSE IF linked_field.fieldtype = "Table"
    THEN ChildTableField(linked_field.options, lx.right, doctype, lx.left)
    ELSE NoDyn

\* DynamicTableField.parse, given what the regular expressions find in the string
DynamicTableField_parse_lx(lx, doctype, allow_tab_notation) ==
    IF ~lx.dot THEN NoDyn
    ELSE IF allow_tab_notation /\ lx.childdoc # ""
         THEN IF lx.childdoc = doctype THEN NoDyn
              ELSE ChildTableField(lx.childdoc, lx.fname, doctype, "")
         ELSE IF ~(lx.left \in SimpleNames /\ lx.right \in SimpleNames \cup {"x"}) THEN NoDyn
         ELSE IF ~has_field(doctype, lx.left) THEN NoDyn
         ELSE DynamicTableField_of(get_field(doctype, lx.left), lx, doctype)

\* DynamicTableField.parse
DynamicTableField_parse(field, doctype, allow_tab_notation) ==
    DynamicTableField_parse_lx(Lex(field), doctype, allow_tab_notation)

\* the field of the joined table a dynamic field stands for (DynamicTableField.field)
DynField(d) == Field(d.doctype, d.fieldname)

(***************************************************************************)
(* Results of operations that may raise.                                   *)
(***************************************************************************)
Raise(e) == [err |-> e]
Failed(r) == "err" \in DOMAIN r

(***************************************************************************)
(* Joins.  A join is identified by its table (QueryBuilder.is_joined).     *)
(***************************************************************************)
\* a plan that never reports a table as joined
is_joined_never(joins, table) == FALSE

\* QueryBuilder.is_joined as apply_join uses it
is_joined(joins, table) == \E i \in 1..Len(joins) : joins[i].table = table

\* LinkTableField.apply_join
LinkTableField_apply_join(d, joins) ==
    IF ~is_joined(joins, d.doctype)
    THEN Append(joins, [table |-> d.doctype, how |-> "left", main |-> d.parent_doctype,
                        on_left |-> "name", on_right |-> d.link_fieldname,
                        parenttype |-> "", parentfield |-> ""])
    ELSE joins

\* ChildTableField.apply_join
ChildTableField_apply_join(d, joins) ==
    IF ~is_joined(joins, d.doctype)
    THEN Append(joins, [table |-> d.doctype, how |-> "left", main |-> d.parent_doctype,
                        on_left |-> "parent", on_right |-> "name",
                        parenttype |-> d.parent_doctype, parentfield |-> d.parent_fieldname])
    ELSE joins

apply_join(d, joins) ==
    IF d.t = "LinkTableField" THEN LinkTableField_apply_join(d, joins)
    ELSE ChildTableField_apply_join(d, joins)

(***************************************************************************)
(* Permission oracle (frappe.has_permission, get_role_permissions,         *)
(* get_permitted_fields, meta.get_permissions), answered from env.         *)
(***************************************************************************)
Doctypes == {"Doc", "Target", "Child"}
PTypes == {"select", "read"}

get_role_permissions(doctype) == env.role[doctype]

\* frappe.only_has_select_perm
only_has_select_perm(doctype) ==
    get_role_permissions(doctype).select /\ ~get_role_permissions(doctype).read

\* Engine.get_permission_type
get_permission_type(doctype) == IF only_has_select_perm(doctype) THEN "select" ELSE "read"

get_permitted_fields(doctype, parenttype, permission_type) == env.permitted[doctype][permission_type]

\* Engine._get_cached_permitted_fields: the value returned, and the cache afterwards
CacheKey(doctype, parenttype, permission_type) == <<doctype, parenttype, permission_type>>
CachePut(cache, doctype, parenttype, permission_type) ==
    LET key == CacheKey(doctype, parenttype, permission_type) IN
    IF key \in DOMAIN cache THEN cache
    ELSE [x \in DOMAIN cache \cup {key} |->
            IF x \in DOMAIN cache THEN cache[x] ELSE get_permitted_fields(doctype, parenttype, permission_type)]
_get_cached_permitted_fields(cache, doctype, parenttype, permission_type) ==
    CachePut(cache, doctype, parenttype, permission_type)[CacheKey(doctype, parenttype, permission_type)]

\* a read-permission check that lets every user through
check_read_permission_skipped == TRUE

\* Engine.check_read_permission: TRUE when it does not raise
check_read_permission == env.has_permission["select"] \/ env.has_permission["read"]

\* Engine._check_field_permission: TRUE when it does not raise
_check_field_permission(cache, apply_permissions, doctype, fieldname, parent_doctype) ==
    IF ~apply_permissions THEN TRUE
    ELSE IF fieldname \in OPTIONAL_FIELDS THEN TRUE
    ELSE IF ~env.has_perm_rules[doctype] THEN TRUE
    ELSE fieldname \in _get_cached_permitted_fields(cache, doctype, parent_doctype, get_permission_type(doctype))

\* the cache after Engine._check_field_permission
_check_field_permission_cache(cache, apply_permissions, doctype, fieldname, parent_doctype) ==
    IF ~apply_permissions \/ fieldname \in OPTIONAL_FIELDS \/ ~env.has_perm_rules[doctype] THEN cache
    ELSE CachePut(cache, doctype, parent_doctype, get_permission_type(doctype))

(***************************************************************************)
(* Field parsing (Engine.parse_fields and the functions it calls).         *)
(***************************************************************************)
_is_function_call(s) == s \in {"COUNT(*)", "COUNT(title) as total"}
isdigit(s) == s \in {"1", "2"}

\* _validate_select_field: "" when the string passes, else the exception
_validate_select_field(s) ==
    IF s = "*" THEN ""
    ELSE IF isdigit(s) THEN ""
    ELSE IF _is_function_call(s) THEN "ValidationError"
    ELSE IF Lex(s).allowed THEN ""
    ELSE "PermissionError"

\* Engine.parse_string_field, given what the regular expressions find in the string
parse_string_field_lx(lx, doctype) ==
    IF lx.fname = "" THEN Raise("ValidationError")
    ELSE IF lx.tabname # ""
         THEN IF ~TABLE_NAME_PATTERN(lx.childdoc) THEN Raise("ValidationError")
              ELSE [val |-> << Field(lx.childdoc, lx.fname) >>]
         ELSE [val |-> << Field(doctype, lx.fname) >>]

\* parse_string_field, lines 948-955: the alias after the last " as ", without its quotes
SelectAlias(s) ==
    CASE s \in {"title as t1", "^title^ as t1", "tabDoc.title as t1"} -> "t1"
      [] s = "title as ^my alias^" -> "my alias"
      [] OTHER -> ""

\* parse_string_field, lines 980-983: pypika_field.as_(alias)
WithAlias(r, alias) ==
    IF Failed(r) \/ alias = "" THEN r ELSE [val |-> << [r.val[1] EXCEPT !.alias = alias] >>]

\* Engine.parse_string_field (as the one-element list its caller makes of the result)
parse_string_field(s, doctype) ==
    IF s = "*" THEN [val |-> << Field(doctype, "*") >>]
    ELSE IF isdigit(s) THEN [val |-> << Field(doctype, s) >>]
    ELSE WithAlias(parse_string_field_lx(Lex(s), doctype), SelectAlias(s))

(***************************************************************************)
(* SQLFunctionParser: function and operator dicts among the fields.        *)
(***************************************************************************)
FUNCTION_MAPPING ==
    {"COUNT", "SUM", "AVG", "MAX", "MIN", "ABS", "EXTRACT", "LOCATE", "TIMESTAMP", "IFNULL", "CONCAT",
     "NOW", "NULLIF", "MONTHNAME", "QUARTER", "MONTH"}
STAR_ALLOWED_FUNCTIONS == {"COUNT"}
OPERATOR_MAPPING == {"ADD", "SUB", "MUL", "DIV"}

\* the strings of the model that IDENTIFIER_PATTERN matches
IDENTIFIER_PATTERN(s) == s \in SimpleNames \cup {"total", "cnt", "select", "order"}

\* str.strip on the argument strings of the model
strip(s) == IF s = " " THEN "" ELSE s

\* the quoted literals of the model and what is between their quotes (arg[1:-1])
QuotedContent ==
    [x \in {"'abc'", "'x; DROP TABLE users'", "'a -- b'", "'a /* b */'", "'1 UNION SELECT 2'"} |->
        CASE x = "'abc'" -> "abc"
          [] x = "'x; DROP TABLE users'" -> "x; DROP TABLE users"
          [] x = "'a -- b'" -> "a -- b"
          [] x = "'a /* b */'" -> "a /* b */"
          [] OTHER -> "1 UNION SELECT 2"]
IsQuoted(s) == s \in DOMAIN QuotedContent

\* int(arg) of a digit string
DigitValue(s) == IF s = "1" THEN 1 ELSE 2

\* pypika terms built by the parser
Star == [t |-> "Star"]
ValueWrapper(v) == [t |-> "ValueWrapper", v |-> v]
FunctionTerm(name, fargs, alias) == [t |-> "Function", name |-> name, args |-> fargs, alias |-> alias]
ArithmeticExpression(operator, left, right, alias) ==
    [t |-> "Arithmetic", operator |-> operator, left |-> left, right |-> right, alias |-> alias]
IsTerm(x) == "t" \in DOMAIN x

\* the keys of a dict other than "as", with their values
function_keys(d) == SelectSeq(d.v, LAMBDA kv : lower(kv[1]) # "as")
alias_keys(d) == SelectSeq(d.v, LAMBDA kv : lower(kv[1]) = "as")

\* SQLFunctionParser.is_function_dict, is_operator_dict
is_function_dict(d) == Len(function_keys(d)) = 1 /\ function_keys(d)[1][1] \in FUNCTION_MAPPING
is_operator_dict(d) == Len(function_keys(d)) = 1 /\ function_keys(d)[1][1] \in OPERATOR_MAPPING

\* SQLFunctionParser._validate_alias: TRUE when it does not raise
_validate_alias(alias) == IsStr(alias) /\ strip(alias.v) # "" /\ IDENTIFIER_PATTERN(alias.v)

\* SQLFunctionParser._extract_dict_components: name, alias ("" for none) and args
_extract_dict_components(d, valid_keys) ==
    IF function_keys(d) = << >> THEN Raise("ValidationError")
    ELSE IF function_keys(d)[Len(function_keys(d))][1] \notin valid_keys THEN Raise("ValidationError")
    ELSE IF alias_keys(d) # << >> /\ Truthy(alias_keys(d)[Len(alias_keys(d))][2])
            /\ ~_validate_alias(alias_keys(d)[Len(alias_keys(d))][2])
    THEN Raise("ValidationError")
    ELSE [name |-> function_keys(d)[Len(function_keys(d))][1],
          alias |-> IF alias_keys(d) # << >> /\ Truthy(alias_keys(d)[Len(alias_keys(d))][2])
                    THEN alias_keys(d)[Len(alias_keys(d))][2].v ELSE "",
          args |-> function_keys(d)[Len(function_keys(d))][2]]

\* SQLFunctionParser._is_valid_field_name
_is_valid_field_name(name) == IDENTIFIER_PATTERN(name)

\* SQLFunctionParser._check_function_field_permission: TRUE when it does not raise
_check_function_field_permission(field_name) ==
    IF ~args.ignore_permissions /\ engine.doctype # ""
    THEN _check_field_permission(engine.permitted_fields_cache, TRUE, engine.doctype, field_name, "")
    ELSE TRUE

\* SQLFunctionParser._validate_string_argument after arg.strip(): the value returned, or the exception
validate_stripped_argument(arg, function_name) ==
    IF arg = "" THEN Raise("ValidationError")
    ELSE IF arg = "*"
    THEN IF function_name \notin STAR_ALLOWED_FUNCTIONS THEN Raise("ValidationError") ELSE [val |-> Star]
    ELSE IF IsQuoted(arg) THEN [val |-> PyStr(QuotedContent[arg])]
    ELSE IF Lex(arg).bt
    THEN IF Lex(arg).btdoc # "" THEN [val |-> Field(Lex(arg).btdoc, Lex(arg).btfield)]
         ELSE Raise("ValidationError")
    ELSE IF _is_valid_field_name(arg)
    THEN IF ~_check_function_field_permission(arg) THEN Raise("PermissionError")
         ELSE [val |-> Field(engine.doctype, arg)]
    ELSE IF isdigit(arg) THEN [val |-> PyInt(DigitValue(arg))]
    ELSE Raise("ValidationError")

\* SQLFunctionParser._validate_string_argument
_validate_string_argument(arg, function_name) == validate_stripped_argument(strip(arg), function_name)

\* func_class() without arguments raises TypeError for the functions that require one
requires_arguments(function_name) == function_name \notin {"NOW", "CONCAT"}

RECURSIVE parse_function(_)
RECURSIVE parse_operator(_)
RECURSIVE _parse_and_validate_argument(_, _)
RECURSIVE parse_function_list(_, _)

\* a parsed argument in front of the parsed rest of the argument list
ArgCons(one, rest) ==
    IF Failed(one) THEN one ELSE IF Failed(rest) THEN rest ELSE [val |-> <<one.val>> \o rest.val]

\* the loop of parse_function over a list of arguments
parse_function_list(function_args, function_name) ==
    IF function_args = << >> THEN [val |-> << >>]
    ELSE ArgCons(_parse_and_validate_argument(Head(function_args), function_name),
                 parse_function_list(Tail(function_args), function_name))

\* a single parsed argument as the argument list of the call
OneArg(one) == IF Failed(one) THEN one ELSE [val |-> <<one.val>>]

\* parse_function, lines 1982-2007: the arguments handed to the function class
parse_function_args(function_name, function_args) ==
    IF IsStr(function_args) THEN OneArg(_parse_and_validate_argument(function_args, function_name))
    ELSE IF function_args.k = "list" THEN parse_function_list(function_args.v, function_name)
    ELSE IF IsInt(function_args) THEN [val |-> <<function_args>>]
    ELSE IF function_args = PyNone
    THEN IF requires_arguments(function_name) THEN Raise("ValidationError") ELSE [val |-> << >>]
    ELSE Raise("ValidationError")

\* the function call with its alias
FunctionCallOf(comps, parsed) ==
    IF Failed(parsed) THEN parsed ELSE [val |-> FunctionTerm(comps.name, parsed.val, comps.alias)]

\* parse_function after _extract_dict_components
parse_function_of(comps) ==
    IF Failed(comps) THEN comps
    ELSE FunctionCallOf(comps, parse_function_args(comps.name, comps.args))

\* SQLFunctionParser.parse_function: the pypika function call, or the exception
parse_function(function_dict) == parse_function_of(_extract_dict_components(function_dict, FUNCTION_MAPPING))

\* an operand wrapped unless it is a pypika term
Operand(v) == IF IsTerm(v) THEN v ELSE ValueWrapper(v)

\* the arithmetic expression of two parsed operands
ExpressionOf(comps, left, right) ==
    IF Failed(left) THEN left
    ELSE IF Failed(right) THEN right
    ELSE [val |-> ArithmeticExpression(comps.name, Operand(left.val), Operand(right.val), comps.alias)]

\* parse_operator after _extract_dict_components
parse_operator_of(comps) ==
    IF Failed(comps) THEN comps
    ELSE IF comps.args.k # "list" THEN Raise("ValidationError")
    ELSE IF Len(comps.args.v) # 2 THEN Raise("ValidationError")
    ELSE ExpressionOf(comps, _parse_and_validate_argument(comps.args.v[1], ""),
                      _parse_and_validate_argument(comps.args.v[2], ""))

\* SQLFunctionParser.parse_operator: the arithmetic expression, or the exception
parse_operator(operator_dict) == parse_operator_of(_extract_dict_components(operator_dict, OPERATOR_MAPPING))

\* SQLFunctionParser._parse_and_validate_argument
_parse_and_validate_argument(arg, function_name) ==
    IF IsInt(arg) THEN [val |-> arg]
    ELSE IF IsStr(arg) THEN _validate_string_argument(arg.v, function_name)
    ELSE IF arg.k = "dict"
    THEN IF is_function_dict(arg) THEN parse_function(arg)
         ELSE IF is_operator_dict(arg) THEN parse_operator(arg)
         ELSE Raise("ValidationError")
    ELSE IF arg = PyNone THEN [val |-> PyNone]
    ELSE Raise("ValidationError")

\* the aliases the parser adds to function_aliases while it builds the term x
RECURSIVE TermAliases(_)
RECURSIVE ArgsAliases(_)
ArgsAliases(q) == IF q = << >> THEN {} ELSE TermAliases(Head(q)) \cup ArgsAliases(Tail(q))
TermAliases(x) ==
    IF ~IsTerm(x) THEN {}
    ELSE IF x.t = "Function" THEN (IF x.alias # "" THEN {x.alias} ELSE {}) \cup ArgsAliases(x.args)
    ELSE IF x.t = "Arithmetic"
    THEN (IF x.alias # "" THEN {x.alias} ELSE {}) \cup TermAliases(x.left) \cup TermAliases(x.right)
    ELSE IF x.t = "ValueWrapper" THEN TermAliases(x.v)
    ELSE {}

\* two results in sequence: the first failure, else the concatenation
ConcatVal(one, rest) ==
    IF Failed(one) THEN one ELSE IF Failed(rest) THEN rest ELSE [val |-> one.val \o rest.val]

\* str.isupper on the dict keys of the model
isupper(s) == s \in FUNCTION_MAPPING \cup OPERATOR_MAPPING \cup {"DROP", "SLEEP", "AS"}

\* a term as the one-element list of parsed fields
OneField(r) == IF Failed(r) THEN r ELSE [val |-> <<r.val>>]

RECURSIVE ChildQueries(_, _)
\* _parse_single_field_item, lines 1049-1066: a dict that is neither a function nor an operator
\* is read as child queries {fieldname: [child fields]}
ChildQueries(items, doctype) ==
    IF items = << >> THEN [val |-> << >>]
    ELSE IF isupper(Head(items)[1]) THEN Raise("ValidationError")
    ELSE IF ~IsListOrTuple(Head(items)[2]) THEN Raise("ValidationError")
    ELSE IF ~has_field(doctype, Head(items)[1]) THEN Raise("AttributeError")
    ELSE ConcatVal([val |-> << ChildQuery(Head(items)[1],
                                           [i \in 1..Len(Head(items)[2].v) |-> Head(items)[2].v[i].v],
                                           doctype) >>],
                   ChildQueries(Tail(items), doctype))

\* the end of Engine._parse_single_field_item: the dynamic field if there is one, else the plain field
ParsedOrStringField(parsed, s, doctype) ==
    IF parsed # NoDyn THEN [val |-> <<parsed>>] ELSE parse_string_field(s, doctype)

\* Engine._parse_single_field_item: the list of parsed fields of one item
_parse_single_field_item(item, doctype) ==
    IF item.k = "dict"
    THEN IF is_function_dict(item) THEN OneField(parse_function(item))
         ELSE IF is_operator_dict(item) THEN OneField(parse_operator(item))
         ELSE ChildQueries(item.v, doctype)
    ELSE IF ~IsStr(item) THEN Raise("ValidationError")
    ELSE ParsedOrStringField(DynamicTableField_parse(item.v, doctype, TRUE), item.v, doctype)

RECURSIVE parse_items(_, _)
\* the loop of Engine.parse_fields: each string is validated, then parsed
parse_items(items, doctype) ==
    IF items = << >> THEN [val |-> << >>]
    ELSE IF IsStr(Head(items)) /\ _validate_select_field(Head(items).v) # ""
    THEN Raise(_validate_select_field(Head(items).v))
    ELSE ConcatVal(_parse_single_field_item(Head(items), doctype), parse_items(Tail(items), doctype))

\* Engine.parse_fields
parse_fields(fs, doctype) ==
    IF fs.k = "none" THEN [val |-> << >>]
    ELSE IF fs.k = "str" THEN (IF fs.v = "" THEN [val |-> << >>] ELSE parse_items(<<fs>>, doctype))
    ELSE IF fs.k = "list" THEN parse_items(fs.v, doctype)
    ELSE Raise("ValidationError")

RECURSIVE SetToSeq(_)
SetToSeq(S) == IF S = {} THEN << >> ELSE LET x == CHOOSE y \in S : TRUE IN <<x>> \o SetToSeq(S \ {x})

SeqToSet(q) == {q[i] : i \in 1..Len(q)}

(***************************************************************************)
(* Engine.apply_field_permissions                                          *)
(***************************************************************************)
\* FieldPermission without the permitted-set test on plain columns
FieldPermission_unfiltered(field, cache, doctype, parent_doctype) ==
    IF field.t = "ChildQuery" /\ ~field.init THEN Raise("AttributeError") ELSE [val |-> <<field>>]

\* one field of self.fields: the fields it contributes to allowed_fields
FieldPermission(field, cache, doctype, parent_doctype) ==
    LET parent_permission_type == get_permission_type(doctype)
        permitted_fields_set == _get_cached_permitted_fields(cache, doctype, parent_doctype, parent_permission_type)
    IN
    CASE field.t = "ChildTableField" ->
            IF parent_permission_type = "select" THEN [val |-> << >>]
            ELSE IF field.fieldname \in _get_cached_permitted_fields(cache, field.doctype, field.parent_doctype,
                                                                     get_permission_type(field.doctype))
                 THEN [val |-> <<field>>] ELSE [val |-> << >>]
      [] field.t = "LinkTableField" ->
            IF field.link_fieldname \in permitted_fields_set
               /\ (env.target_has_permission["select"] \/ env.target_has_permission["read"])
               /\ field.fieldname \in _get_cached_permitted_fields(cache, field.doctype, "",
                                                                   get_permission_type(field.doctype))
            THEN [val |-> <<field>>] ELSE [val |-> << >>]
      [] field.t = "ChildQuery" ->
            IF parent_permission_type = "select" THEN [val |-> << >>]
            ELSE IF ~field.init THEN Raise("AttributeError")
            ELSE LET permitted_child_fields_set ==
                         _get_cached_permitted_fields(cache, field.doctype, field.parent_doctype,
                                                      get_permission_type(field.doctype))
                     kept == SelectSeq(field.fields, LAMBDA f : f \in permitted_child_fields_set) IN
                 IF kept # << >> THEN [val |-> << [field EXCEPT !.fields = kept] >>] ELSE [val |-> << >>]
      [] field.t = "Field" ->
            IF field.name = "*"
            THEN [val |-> [i \in 1..Cardinality(permitted_fields_set) |->
                             Field(doctype, SetToSeq(permitted_fields_set)[i])]]
            ELSE IF field.name \in OPTIONAL_FIELDS \/ field.name \in permitted_fields_set
                 THEN [val |-> <<field>>] ELSE [val |-> << >>]
      [] OTHER -> [val |-> <<field>>]

\* the permitted-field cache after one field has been checked
FieldPermissionCache(field, cache, doctype, parent_doctype) ==
    LET parent_permission_type == get_permission_type(doctype) IN
    CASE field.t \in {"ChildTableField", "ChildQuery"} ->
            IF parent_permission_type = "select" \/ (field.t = "ChildQuery" /\ ~field.init) THEN cache
            ELSE CachePut(cache, field.doctype, field.parent_doctype, get_permission_type(field.doctype))
      [] field.t = "LinkTableField" ->
            IF field.link_fieldname \in _get_cached_permitted_fields(cache, doctype, parent_doctype, parent_permission_type)
               /\ (env.target_has_permission["select"] \/ env.target_has_permission["read"])
            THEN CachePut(cache, field.doctype, "", get_permission_type(field.doctype))
            ELSE cache
      [] OTHER -> cache

RECURSIVE apply_field_permissions_loop(_, _, _, _)
apply_field_permissions_loop(fs, cache, doctype, parent_doctype) ==
    IF fs = << >> THEN [val |-> << >>, cache |-> cache]
    ELSE LET one == FieldPermission(Head(fs), cache, doctype, parent_doctype) IN
         IF Failed(one) THEN one
         ELSE LET rest == apply_field_permissions_loop(Tail(fs),
                              FieldPermissionCache(Head(fs), cache, doctype, parent_doctype),
                              doctype, parent_doctype) IN
              IF Failed(rest) THEN rest ELSE [val |-> one.val \o rest.val, cache |-> rest.cache]

apply_field_permissions(fs, cache, doctype, parent_doctype) ==
    apply_field_permissions_loop(fs, CachePut(cache, doctype, parent_doctype, get_permission_type(doctype)),
                                 doctype, parent_doctype)

(***************************************************************************)
(* The get_query call.                                                     *)
(***************************************************************************)
EmptyQuery ==
    [select |-> << >>, child_queries |-> << >>, joins |-> << >>, wheres |-> << >>,
     groupby |-> << >>, orderby |-> << >>, limit |-> PyNone, offset |-> PyNone,
     distinct |-> FALSE, for_update |-> FALSE, kind |-> "", immutable |-> FALSE,
     fields_list |-> << >>]

EmptyEngine ==
    [doctype |-> "", permission_doctype |-> "", function_aliases |-> {}, field_aliases |-> {},
     permitted_fields_cache |-> << >>]

apply_permissions == ~args.ignore_permissions

Fail(e) == pc' = "error" /\ exc' = e

\* Engine.validate_doctype
validate_doctype(doctype) == TABLE_NAME_PATTERN(doctype)

\* get_query, lines 250-280: per-call attributes, entity name check, read permission check
\* (args.table of a Table object is the name get_doctype_name reads from it; lines 267-269 take
\* it without validate_doctype)
Setup ==
    /\ pc = "setup"
    /\ UNCHANGED <<result, invitation, outbox, suspended, returned, endpoint>>
    /\ UNCHANGED <<args, env, fields, query>>
    /\ IF ~args.table_object /\ ~validate_doctype(args.table)
       THEN Fail("ValidationError") /\ engine' = [EmptyEngine EXCEPT !.doctype = args.table]
       ELSE IF apply_permissions /\ ~check_read_permission
       THEN Fail("PermissionError") /\ engine' = [EmptyEngine EXCEPT !.doctype = args.table]
       ELSE /\ engine' = [EmptyEngine EXCEPT
                            !.doctype = args.table,
                            !.permission_doctype =
                                IF ~apply_permissions THEN ""
                                ELSE IF args.parent_doctype # "" THEN args.parent_doctype ELSE args.table]
            /\ pc' = "fields"
            /\ exc' = exc

RECURSIVE ApplySelect(_, _)
\* the loop of Engine.apply_fields over self.fields
ApplySelect(fs, q) ==
    IF fs = << >> THEN q
    ELSE LET f == Head(fs) IN
         ApplySelect(Tail(fs),
            IF IsDynamic(f)
            THEN [q EXCEPT !.joins = apply_join(f, q.joins),
                           !.select = Append(q.select, [DynField(f) EXCEPT !.alias = f.alias])]
            ELSE IF f.t = "ChildQuery"
            THEN [q EXCEPT !.child_queries = Append(q.child_queries, f)]
            ELSE [q EXCEPT !.select = Append(q.select, f)])

\* apply_fields, lines 347-350: the aliases of the fields and dynamic fields
Aliases(fs) ==
    {fs[i].alias : i \in {j \in 1..Len(fs) : /\ fs[j].t \in {"Field", "LinkTableField", "ChildTableField"}
                                               /\ fs[j].alias # ""}}

\* Engine.apply_fields after the field permissions were applied, giving permitted
FieldsPermitted(parsed, permitted) ==
    IF Failed(permitted)
    THEN Fail(permitted.err) /\ UNCHANGED <<fields, query, engine>>
    ELSE LET fs == IF permitted.val = << >> THEN << Field(engine.doctype, "name") >>
                   ELSE permitted.val IN
         /\ fields' = fs
         /\ engine' = [engine EXCEPT !.field_aliases = Aliases(parsed.val),
                                     !.function_aliases = ArgsAliases(parsed.val),
                                     !.permitted_fields_cache = permitted.cache]
         /\ query' = ApplySelect(fs, [EmptyQuery EXCEPT !.kind = "select"])
         /\ pc' = "filters"
         /\ exc' = exc

\* Engine.apply_fields after parse_fields returned parsed
FieldsParsed(parsed) ==
    IF Failed(parsed)
    THEN Fail(parsed.err) /\ UNCHANGED <<fields, query, engine>>
    ELSE FieldsPermitted(parsed,
            IF apply_permissions
            THEN apply_field_permissions(parsed.val, engine.permitted_fields_cache,
                                         engine.doctype, args.parent_doctype)
            ELSE [val |-> parsed.val, cache |-> engine.permitted_fields_cache])

\* get_query, lines 282-292, and Engine.apply_fields
ApplyFields ==
    /\ pc = "fields"
    /\ UNCHANGED <<result, invitation, outbox, suspended, returned, endpoint>>
    /\ UNCHANGED <<args, env>>
    /\ IF args.mode # "select"
       THEN /\ query' = [EmptyQuery EXCEPT !.kind = args.mode]
            /\ pc' = "filters"
            /\ UNCHANGED <<exc, fields, engine>>
       ELSE FieldsParsed(parse_fields(args.fields, engine.doctype))

(***************************************************************************)
(* Criteria (pypika Criterion).  The tag c sorts before the other fields.  *)
(***************************************************************************)
Cmp(f, op, v) == [c |-> "cmp", f |-> f, op |-> op, v |-> v]
IsNullC(f) == [c |-> "isnull", f |-> f]
IfNullEmptyC(f) == [c |-> "ifnull_empty", f |-> f]
RawCriterion(s) == [c |-> "raw", s |-> s]
AndC(l, r) == [c |-> "and", l |-> l, r |-> r]
OrC(l, r) == [c |-> "or", l |-> l, r |-> r]

RECURSIVE ReduceOr(_)
\* reduce(lambda a, b: a | b, criteria)
ReduceOr(criteria) ==
    IF Len(criteria) = 1 THEN criteria[1]
    ELSE OrC(ReduceOr(SubSeq(criteria, 1, Len(criteria) - 1)), criteria[Len(criteria)])

\* Engine._get_ifnull_fallback, as the value the caller derives from it
_get_ifnull_fallback(doctype, fieldname) ==
    IF get_field(doctype, fieldname).fieldtype \in {"Float", "Int", "Currency", "Percent", "Check"}
    THEN PyInt(0) ELSE PyStr("")

\* self._check_field_permission(doctype, fieldname, parent_doctype) followed by the return of a
\* resolved field: the exception, or the field with the joins and the cache afterwards
CheckedField(f, joins, cache, doctype, fieldname, parent_doctype) ==
    IF ~_check_field_permission(cache, apply_permissions, doctype, fieldname, parent_doctype)
    THEN Raise("PermissionError")
    ELSE [f |-> f, joins |-> joins,
          cache |-> _check_field_permission_cache(cache, apply_permissions, doctype, fieldname, parent_doctype)]

\* _validate_and_prepare_filter_field, lines 764-786: a dotted link_field.target_field reference
FilterDynamicField(dynamic_field, st) ==
    IF dynamic_field = NoDyn THEN Raise("ValidationError")
    ELSE CheckedField(DynField(dynamic_field), apply_join(dynamic_field, st.joins), st.cache,
                      dynamic_field.doctype, dynamic_field.fieldname,
                      IF dynamic_field.t = "ChildTableField" THEN dynamic_field.parent_doctype ELSE "")

\* _validate_and_prepare_filter_field, lines 805-838: a field of an explicitly named child doctype;
\* tfs are the table fields of the main doctype whose options are that doctype
FilterChildField(tfs, doctype, target_fieldname, st) ==
    IF tfs = << >> THEN Raise("ValidationError")
    ELSE CheckedField(Field(doctype, target_fieldname),
                      apply_join(ChildTableField(doctype, target_fieldname, engine.doctype, tfs[1].fieldname),
                                 st.joins),
                      st.cache, doctype, target_fieldname, engine.doctype)

\* _validate_and_prepare_filter_field, lines 840-890: a field of the main doctype, or a field found
\* only in one of its child tables; tfs are the table fields whose child doctype has the field
FilterPlainField(tfs, doctype, target_fieldname, st) ==
    IF /\ doctype = ""
       /\ target_fieldname \notin default_fields \cup OPTIONAL_FIELDS \cup child_table_fields
       /\ ~has_field(engine.doctype, target_fieldname)
       /\ tfs # << >>
    THEN CheckedField(Field(tfs[1].options, target_fieldname),
                      apply_join(ChildTableField(tfs[1].options, target_fieldname, engine.doctype,
                                                 tfs[1].fieldname), st.joins),
                      st.cache, tfs[1].options, target_fieldname, engine.doctype)
    ELSE CheckedField(Field(IF doctype # "" THEN doctype ELSE engine.doctype, target_fieldname),
                      st.joins, st.cache,
                      IF doctype # "" THEN doctype ELSE engine.doctype, target_fieldname,
                      IF doctype # "" THEN args.parent_doctype ELSE "")

\* Engine._validate_and_prepare_filter_field, given what the regular expressions find in the string
_validate_and_prepare_filter_field_lx(lx, field, doctype, st) ==
    IF lx.bt
    THEN IF lx.btdoc # "" THEN [f |-> Field(lx.btdoc, lx.btfield), joins |-> st.joins, cache |-> st.cache]
         ELSE Raise("ValidationError")
    ELSE IF lx.dot
    THEN FilterDynamicField(DynamicTableField_parse_lx(lx, engine.doctype, FALSE), st)
    ELSE IF ~lx.simple THEN Raise("ValidationError")
    ELSE IF doctype # "" /\ doctype # engine.doctype
    THEN FilterChildField(SelectSeq(get_table_fields(engine.doctype), LAMBDA df : df.options = doctype),
                          doctype, field, st)
    ELSE FilterPlainField(SelectSeq(get_table_fields(engine.doctype), LAMBDA df : has_field(df.options, field)),
                          doctype, field, st)

\* Engine._validate_and_prepare_filter_field: the pypika field, the joins and the cache afterwards
_validate_and_prepare_filter_field(field, doctype, st) ==
    IF ~IsStr(field) THEN Raise("TypeError")
    ELSE _validate_and_prepare_filter_field_lx(Lex(field.v), field.v, doctype, st)

IsEmptyCollection(v) == v.k = "list" /\ v.v = << >>

\* the field name _build_criterion_for_simple_filter asks the fallback for
FilterFieldName(lx, s) == IF lx.dot THEN lx.right ELSE s

\* _build_criterion_for_simple_filter after the field has been resolved to fr
BuildCriterion(fr, field, value, operator, doctype) ==
    IF Failed(fr) THEN fr
    ELSE IF ~IsStr(operator) THEN Raise("AttributeError")
    ELSE LET v0 == convert_to_value(value)
             _value == IF IsEmptyCollection(v0) THEN PyList(<<PyStr("")>>) ELSE v0
             _operator == lower(operator.v)
             opname == IF env.db_type = "postgres" /\ _operator = "like" THEN "ilike" ELSE _operator
         IN
         IF _operator \notin OPERATOR_MAP THEN Raise("KeyError")
         ELSE [crit |-> IF _value = PyNone
                        THEN IF opname = "!="
                             THEN Cmp(fr.f, "!=", _get_ifnull_fallback(
                                                      IF doctype # "" THEN doctype ELSE engine.doctype,
                                                      FilterFieldName(Lex(field.v), field.v)))
                             ELSE IsNullC(fr.f)
                        ELSE Cmp(fr.f, opname, _value),
               joins |-> fr.joins, cache |-> fr.cache]

\* Engine._build_criterion_for_simple_filter: the criterion, the joins and the cache afterwards
_build_criterion_for_simple_filter(field, value, operator, doctype, st) ==
    BuildCriterion(_validate_and_prepare_filter_field(field, doctype, st), field, value, operator, doctype)

(***************************************************************************)
(* Nested boolean filter trees.                                            *)
(***************************************************************************)
RECURSIVE _condition_to_criterion(_, _)
RECURSIVE _parse_nested_filters(_, _)
RECURSIVE ParseNestedLoop(_, _, _, _)

\* the end of one round of the while loop with the two boolean operators exchanged
ParseNestedCombine_swapped(nx, nested_list, idx, current) ==
    IF Failed(nx) THEN nx
    ELSE ParseNestedLoop(nested_list, idx + 2,
                         IF lower(nested_list[idx].v) = "and" THEN OrC(current, nx.crit)
                         ELSE AndC(current, nx.crit),
                         [joins |-> nx.joins, cache |-> nx.cache])

\* the end of one round of the while loop with "and" binding tighter than "or"
ParseNestedCombine_precedence(nx, nested_list, idx, current) ==
    IF Failed(nx) THEN nx
    ELSE ParseNestedLoop(nested_list, idx + 2,
                         IF lower(nested_list[idx].v) = "and"
                         THEN IF current.c = "or" THEN OrC(current.l, AndC(current.r, nx.crit))
                              ELSE AndC(current, nx.crit)
                         ELSE OrC(current, nx.crit),
                         [joins |-> nx.joins, cache |-> nx.cache])

\* the end of one round of the while loop: nx is the criterion of the condition after the operator
ParseNestedCombine(nx, nested_list, idx, current) ==
    IF Failed(nx) THEN nx
    ELSE ParseNestedLoop(nested_list, idx + 2,
                         IF lower(nested_list[idx].v) = "and" THEN AndC(current, nx.crit)
                         ELSE OrC(current, nx.crit),
                         [joins |-> nx.joins, cache |-> nx.cache])

\* the while loop of Engine._parse_nested_filters, from position idx on
ParseNestedLoop(nested_list, idx, current, st) ==
    IF idx > Len(nested_list) THEN [crit |-> current, joins |-> st.joins, cache |-> st.cache]
    ELSE IF ~IsStr(nested_list[idx]) \/ lower(nested_list[idx].v) \notin {"and", "or"}
    THEN Raise("ValidationError")
    ELSE IF idx + 1 > Len(nested_list) THEN Raise("ValidationError")
    ELSE IF ~IsListOrTuple(nested_list[idx + 1]) THEN Raise("ValidationError")
    ELSE ParseNestedCombine(_condition_to_criterion(nested_list[idx + 1], st), nested_list, idx, current)

\* _parse_nested_filters after its first condition has been converted
ParseNestedFirst(first, nested_list) ==
    IF Failed(first) THEN first
    ELSE ParseNestedLoop(nested_list, 2, first.crit, [joins |-> first.joins, cache |-> first.cache])

\* Engine._parse_nested_filters (called on non-empty lists only)
_parse_nested_filters(nested_list, st) ==
    IF ~IsListOrTuple(nested_list) THEN Raise("ValidationError")
    ELSE IF ~IsListOrTuple(nested_list.v[1]) THEN Raise("ValidationError")
    ELSE ParseNestedFirst(_condition_to_criterion(nested_list.v[1], st), nested_list.v)

\* Engine._condition_to_criterion
_condition_to_criterion(condition, st) ==
    IF ~IsListOrTuple(condition) THEN Raise("ValidationError")
    ELSE LET q == condition.v IN
         IF Len(q) >= 3 /\ IsStr(q[2]) /\ IsListOrTuple(q[1])
         THEN _parse_nested_filters(condition, st)
         ELSE IF Len(q) = 3 /\ IsStr(q[2]) /\ lower(q[2].v) \in OPERATOR_MAP
         THEN _build_criterion_for_simple_filter(q[1], q[3], q[2], "", st)
         ELSE IF Len(q) = 4 /\ IsStr(q[3]) /\ lower(q[3].v) \in OPERATOR_MAP
         THEN _build_criterion_for_simple_filter(q[2], q[4], q[3], q[1].v, st)
         ELSE IF Len(q) = 2
         THEN _build_criterion_for_simple_filter(q[1], q[2], PyStr("="), "", st)
         ELSE Raise("ValidationError")

(***************************************************************************)
(* Engine.apply_filters.  st = [wheres, joins, cache, collect]; collecting *)
(* says whether a collect list was passed (or_filters).                    *)
(***************************************************************************)
\* frappe.throw(msg, exc=e) in the except clause of apply_filters
NestedFilterError(e) == "ValidationError"

\* the end of Engine._apply_filter: the criterion goes to the collect list or to the WHERE clause
AddCriterion(r, collecting, st) ==
    IF Failed(r) THEN r
    ELSE IF collecting
    THEN [wheres |-> st.wheres, joins |-> r.joins, cache |-> r.cache, collect |-> Append(st.collect, r.crit)]
    ELSE [wheres |-> Append(st.wheres, r.crit), joins |-> r.joins, cache |-> r.cache, collect |-> st.collect]

\* Engine._apply_filter
_apply_filter(field, value, operator, doctype, collecting, st) ==
    AddCriterion(_build_criterion_for_simple_filter(field, value, operator, doctype, st), collecting, st)

\* Engine.apply_list_filters
apply_list_filters(filter, collecting, st) ==
    LET q == filter.v IN
    IF Len(q) = 2 THEN _apply_filter(q[1], q[2], PyStr("="), "", collecting, st)
    ELSE IF Len(q) = 3 THEN _apply_filter(q[1], q[3], q[2], "", collecting, st)
    ELSE IF Len(q) = 4 THEN _apply_filter(q[2], q[4], q[3], q[1].v, collecting, st)
    ELSE Raise("ValueError")

RECURSIVE apply_dict_filters(_, _, _)
\* the next round of the loop of apply_dict_filters, after one item gave r
DictFiltersRest(r, items, collecting) ==
    IF Failed(r) THEN r ELSE apply_dict_filters(items, collecting, r)

\* the loop of apply_dict_filters with "!=" as the operator of a plain value
apply_dict_filters_unequal(items, collecting, st) ==
    IF items = << >> THEN st
    ELSE LET field == PyStr(Head(items)[1])
             value == Head(items)[2] IN
         IF IsListOrTuple(value) /\ Len(value.v) # 2 THEN Raise("ValueError")
         ELSE DictFiltersRest(
                 IF IsListOrTuple(value)
                 THEN _apply_filter(field, value.v[2], value.v[1], "", collecting, st)
                 ELSE _apply_filter(field, value, PyStr("!="), "", collecting, st),
                 Tail(items), collecting)

\* Engine.apply_dict_filters, over the items of the dict in order
apply_dict_filters(items, collecting, st) ==
    IF items = << >> THEN st
    ELSE LET field == PyStr(Head(items)[1])
             value == Head(items)[2] IN
         IF IsListOrTuple(value) /\ Len(value.v) # 2 THEN Raise("ValueError")
         ELSE DictFiltersRest(
                 IF IsListOrTuple(value)
                 THEN _apply_filter(field, value.v[2], value.v[1], "", collecting, st)
                 ELSE _apply_filter(field, value, PyStr("="), "", collecting, st),
                 Tail(items), collecting)

RECURSIVE apply_filters(_, _, _)
RECURSIVE ApplyFlatList(_, _, _)

\* the next round of the loop over a flat list, after one item gave r
FlatListRest(r, items, collecting) ==
    IF Failed(r) THEN r ELSE ApplyFlatList(items, collecting, r)

\* the loop over a list of simple filters (implicitly ANDed)
ApplyFlatList(items, collecting, st) ==
    IF items = << >> THEN st
    ELSE FlatListRest(
            IF IsListOrTuple(Head(items)) THEN apply_list_filters(Head(items), collecting, st)
            ELSE IF Head(items).k = "dict" THEN apply_filters(Head(items), collecting, st)
            ELSE Raise("ValueError"),
            Tail(items), collecting)

\* apply_filters, lines 430-437: the criterion of a nested tree goes to the WHERE clause, and an
\* exception of the parse is re-raised through frappe.throw
AddNestedCriterion(r, st) ==
    IF Failed(r) THEN Raise(NestedFilterError(r.err))
    ELSE [wheres |-> Append(st.wheres, r.crit), joins |-> r.joins, cache |-> r.cache, collect |-> st.collect]

\* apply_filters, lines 402-409: is_single_group
is_single_group(q) ==
    /\ Len(q) = 1 /\ IsListOrTuple(q[1])
    /\ Len(q[1].v) >= 3 /\ IsStr(q[1].v[2])

\* is_nested_structure without the test of the first element
is_nested_structure_odd_only(q) ==
    \/ is_single_group(q)
    \/ /\ ~(Len(q) = 1 /\ IsListOrTuple(q[1]))
       /\ \E i \in 1..Len(q) : i % 2 = 0 /\ IsStr(q[i])

\* apply_filters, lines 402-421: a single group, or a string first or at an odd 0-based index
is_nested_structure(q) ==
    \/ is_single_group(q)
    \/ /\ ~(Len(q) = 1 /\ IsListOrTuple(q[1]))
       /\ \/ \E i \in 1..Len(q) : i % 2 = 0 /\ IsStr(q[i])
          \/ IsStr(q[1])

\* Engine.apply_filters
apply_filters(filters, collecting, st) ==
    IF filters.k = "none" THEN st
    ELSE IF IsFilterValue(filters)
    THEN apply_dict_filters(<< <<"name", convert_to_value(filters)>> >>, collecting, st)
    ELSE IF filters.k = "dict" THEN apply_dict_filters(filters.v, collecting, st)
    ELSE IF IsListOrTuple(filters)
    THEN LET q == filters.v IN
         IF q = << >> THEN st
         ELSE IF \A i \in 1..Len(q) : IsFilterValue(q[i])
         THEN apply_dict_filters(
                 << <<"name", PyList(<<PyStr("in"), PyList([i \in 1..Len(q) |-> convert_to_value(q[i])])>>)>> >>,
                 collecting, st)
         ELSE IF is_nested_structure(q)
         THEN AddNestedCriterion(
                 IF is_single_group(q)
                 THEN _condition_to_criterion(q[1], [joins |-> st.joins, cache |-> st.cache])
                 ELSE _parse_nested_filters(filters, [joins |-> st.joins, cache |-> st.cache]),
                 st)
         ELSE ApplyFlatList(q, collecting, st)
    ELSE Raise("ValueError")

\* the plan after Engine.apply_filters returned r
FiltersApplied(r, next_pc) ==
    IF Failed(r) THEN Fail(r.err) /\ UNCHANGED <<query, engine>>
    ELSE /\ query' = [query EXCEPT
                         !.wheres = IF r.collect # << >> THEN Append(r.wheres, ReduceOr(r.collect))
                                    ELSE r.wheres,
                         !.joins = r.joins]
         /\ engine' = [engine EXCEPT !.permitted_fields_cache = r.cache]
         /\ pc' = next_pc
         /\ exc' = exc

\* get_query, line 294
ApplyFilters ==
    /\ pc = "filters"
    /\ UNCHANGED <<result, invitation, outbox, suspended, returned, endpoint>>
    /\ UNCHANGED <<args, env, fields>>
    /\ FiltersApplied(apply_filters(args.filters, FALSE,
                          [wheres |-> query.wheres, joins |-> query.joins,
                           cache |-> engine.permitted_fields_cache, collect |-> << >>]),
                      "or_filters")

\* get_query, line 295, and Engine.apply_or_filters
ApplyOrFilters ==
    /\ pc = "or_filters"
    /\ UNCHANGED <<result, invitation, outbox, suspended, returned, endpoint>>
    /\ UNCHANGED <<args, env, fields>>
    /\ FiltersApplied(apply_filters(args.or_filters, TRUE,
                          [wheres |-> query.wheres, joins |-> query.joins,
                           cache |-> engine.permitted_fields_cache, collect |-> << >>]),
                      "limit")

IntOf(x) == IF x.k = "bool" THEN (IF x.v THEN 1 ELSE 0) ELSE x.v

\* get_query, lines 297-311: limit, offset, distinct, for_update
ApplyLimit ==
    /\ pc = "limit"
    /\ UNCHANGED <<result, invitation, outbox, suspended, returned, endpoint>>
    /\ UNCHANGED <<args, env, fields, engine>>
    /\ IF Truthy(args.limit) /\ (~IsInt(args.limit) \/ IntOf(args.limit) < 0)
       THEN Fail("TypeError") /\ UNCHANGED query
       ELSE IF Truthy(args.offset) /\ (~IsInt(args.offset) \/ IntOf(args.offset) < 0)
       THEN Fail("TypeError") /\ UNCHANGED query
       ELSE /\ query' = [query EXCEPT
                            !.limit = IF Truthy(args.limit) THEN args.limit ELSE PyNone,
                            !.offset = IF Truthy(args.offset) THEN args.offset ELSE PyNone,
                            !.distinct = args.distinct,
                            !.for_update = args.for_update]
            /\ pc' = "group_by"
            /\ exc' = exc

\* _validate_and_parse_field_for_clause on link_field.target_field, after the link field was checked
ClauseLinkTarget(r, dynamic_field) ==
    IF Failed(r) THEN r
    ELSE CheckedField(r.f, r.joins, r.cache, dynamic_field.doctype, dynamic_field.fieldname, "")

\* _validate_and_parse_field_for_clause, lines 1157-1186: a dotted reference, or a plain field name
ClauseField(dynamic_field, lx, field_name, st) ==
    IF dynamic_field # NoDyn
    THEN IF dynamic_field.t = "ChildTableField"
         THEN CheckedField(DynField(dynamic_field), apply_join(dynamic_field, st.joins), st.cache,
                           dynamic_field.doctype, dynamic_field.fieldname, dynamic_field.parent_doctype)
         ELSE ClauseLinkTarget(
                 CheckedField(DynField(dynamic_field), apply_join(dynamic_field, st.joins), st.cache,
                              engine.doctype, dynamic_field.link_fieldname, ""),
                 dynamic_field)
    ELSE IF ~lx.simple THEN Raise("ValidationError")
    ELSE CheckedField(Field(engine.doctype, field_name), st.joins, st.cache, engine.doctype, field_name, "")

\* Engine._validate_and_parse_field_for_clause, given what the regular expressions find in the string
_validate_and_parse_field_for_clause_lx(lx, field_name, st) ==
    IF isdigit(field_name) THEN [f |-> [t |-> "Positional", name |-> field_name], joins |-> st.joins, cache |-> st.cache]
    ELSE IF field_name \in engine.function_aliases \/ field_name \in engine.field_aliases
    THEN [f |-> Field("", field_name), joins |-> st.joins, cache |-> st.cache]
    ELSE IF lx.bt
    THEN IF lx.btdoc # "" THEN [f |-> Field(lx.btdoc, lx.btfield), joins |-> st.joins, cache |-> st.cache]
         ELSE Raise("ValidationError")
    ELSE ClauseField(DynamicTableField_parse_lx(lx, engine.doctype, FALSE), lx, field_name, st)

\* Engine._validate_and_parse_field_for_clause: the field, the joins and the cache afterwards
_validate_and_parse_field_for_clause(field_name, st) ==
    _validate_and_parse_field_for_clause_lx(Lex(field_name), field_name, st)

\* a validated clause item in front of the validated rest of the clause
ClauseCons(item, rest) ==
    IF Failed(rest) THEN rest
    ELSE [val |-> <<item>> \o rest.val, joins |-> rest.joins, cache |-> rest.cache]

RECURSIVE _validate_group_by(_, _)
\* the next round of the loop of _validate_group_by, after one part gave the field one
GroupByRest(one, parts) ==
    IF Failed(one) THEN one
    ELSE ClauseCons(one.f, _validate_group_by(parts, [joins |-> one.joins, cache |-> one.cache]))

\* Engine._validate_group_by over the comma-separated parts of the string
_validate_group_by(parts, st) ==
    IF parts = << >> THEN [val |-> << >>, joins |-> st.joins, cache |-> st.cache]
    ELSE GroupByRest(_validate_and_parse_field_for_clause(Head(parts), st), Tail(parts))

\* the plan after the group_by or order_by clause was validated to r
ClauseApplied(r, clause, next_pc) ==
    IF Failed(r) THEN Fail(r.err) /\ UNCHANGED <<query, engine>>
    ELSE /\ query' = [query EXCEPT ![clause] = r.val, !.joins = r.joins]
         /\ engine' = [engine EXCEPT !.permitted_fields_cache = r.cache]
         /\ pc' = next_pc
         /\ exc' = exc

\* get_query, lines 313-314, and Engine.apply_group_by
ApplyGroupBy ==
    /\ pc = "group_by"
    /\ UNCHANGED <<result, invitation, outbox, suspended, returned, endpoint>>
    /\ UNCHANGED <<args, env, fields>>
    /\ IF args.group_by = << >>
       THEN pc' = "order_by" /\ UNCHANGED <<exc, query, engine>>
       ELSE ClauseApplied(_validate_group_by(args.group_by,
                              [joins |-> query.joins, cache |-> engine.permitted_fields_cache]),
                          "groupby", "order_by")

DefaultOrderBy == "KEEP_DEFAULT_ORDERING"

\* the direction Engine._validate_order_by gives a declaration (db_query_compat off)
OrderDirection(direction) == IF direction = "asc" THEN "asc" ELSE "desc"

RECURSIVE _validate_order_by(_, _)
\* the next round of the loop of _validate_order_by, after one declaration gave the field one
OrderByRest(one, direction, decls) ==
    IF Failed(one) THEN one
    ELSE ClauseCons(<<one.f, OrderDirection(direction)>>,
                    _validate_order_by(decls, [joins |-> one.joins, cache |-> one.cache]))

\* Engine._validate_order_by over the comma-separated declarations
_validate_order_by(decls, st) ==
    IF decls = << >> THEN [val |-> << >>, joins |-> st.joins, cache |-> st.cache]
    ELSE OrderByRest(_validate_and_parse_field_for_clause(Head(decls).field, st),
                     Head(decls).direction, Tail(decls))

\* Engine._apply_default_order_by, for a single sort field
_apply_default_order_by == << <<Field(engine.doctype, env.sort_field), OrderDirection(env.sort_order)>> >>

\* get_query, lines 316-329, and Engine.apply_order_by
ApplyOrderBy ==
    /\ pc = "order_by"
    /\ UNCHANGED <<result, invitation, outbox, suspended, returned, endpoint>>
    /\ UNCHANGED <<args, env, fields>>
    /\ IF args.order_by = << >>
       THEN pc' = "permissions" /\ UNCHANGED <<exc, query, engine>>
       ELSE IF env.db_type = "postgres" /\ args.mode = "select" /\ (args.distinct \/ args.group_by # << >>)
       THEN pc' = "permissions" /\ UNCHANGED <<exc, query, engine>>
       ELSE IF args.order_by = << [field |-> DefaultOrderBy, direction |-> ""] >>
       THEN /\ query' = [query EXCEPT !.orderby = _apply_default_order_by]
            /\ pc' = "permissions"
            /\ UNCHANGED <<exc, engine>>
       ELSE ClauseApplied(_validate_order_by(args.order_by,
                              [joins |-> query.joins, cache |-> engine.permitted_fields_cache]),
                          "orderby", "permissions")

(***************************************************************************)
(* Permission condition builder.                                           *)
(***************************************************************************)
StrList(docs) == PyList([i \in 1..Len(docs) |-> PyStr(docs[i])])

\* Engine.get_doctype_link_fields
get_doctype_link_fields(permission_doctype) ==
    << DF("name", "", permission_doctype, FALSE) >> \o get_link_fields(permission_doctype)

\* the docs collected for one link field in Engine.get_user_permission_conditions
UserPermissionDocs(df, permission_doctype) ==
    LET user_permission_values == env.user_permissions[df.options]
        applies(permission) ==
            IF permission.applicable_for = "" THEN TRUE
            ELSE IF df.fieldname = "name" /\ args.reference_doctype # ""
                 THEN permission.applicable_for = args.reference_doctype
                 ELSE permission.applicable_for = permission_doctype
        kept == SelectSeq(user_permission_values, applies) IN
    [i \in 1..Len(kept) |-> kept[i].doc]

\* the condition for one link field without the pass-through of empty values
UserPermissionCondition_strict(df, docs, permission_doctype) ==
    Cmp(Field(permission_doctype, df.fieldname), "in", StrList(docs))

\* the condition Engine.get_user_permission_conditions builds for one link field
UserPermissionCondition(df, docs, permission_doctype) ==
    LET f == Field(permission_doctype, df.fieldname) IN
    IF env.strict_user_permissions THEN Cmp(f, "in", StrList(docs))
    ELSE OrC(IfNullEmptyC(f), Cmp(f, "in", StrList(docs)))

RECURSIVE UserPermissionLoop(_, _)
UserPermissionLoop(dfs, permission_doctype) ==
    IF dfs = << >> THEN << >>
    ELSE LET df == Head(dfs)
             docs == UserPermissionDocs(df, permission_doctype) IN
         (IF ~df.ignore_user_permissions /\ docs # << >>
          THEN << UserPermissionCondition(df, docs, permission_doctype) >> ELSE << >>)
         \o UserPermissionLoop(Tail(dfs), permission_doctype)

\* Engine.get_user_permission_conditions
get_user_permission_conditions(permission_doctype) ==
    IF args.ignore_user_permissions THEN << >>
    ELSE IF \A d \in Doctypes : env.user_permissions[d] = << >> THEN << >>
    ELSE UserPermissionLoop(get_doctype_link_fields(permission_doctype), permission_doctype)

\* an owner constraint that is never required
requires_owner_constraint_never(role_permissions) == FALSE

\* Engine.requires_owner_constraint
requires_owner_constraint(role_permissions) ==
    IF ~role_permissions.has_if_owner_enabled THEN FALSE
    ELSE IF role_permissions.if_owner = {} THEN FALSE
    ELSE IF \E perm_type \in {"select", "read"} :
               role_permissions[perm_type] /\ perm_type \notin role_permissions.if_owner
    THEN FALSE
    ELSE TRUE

RECURSIVE HookConditions(_)
\* the loop over the hook methods with an exception of a hook caught and the hook skipped
HookConditions_caught(methods) ==
    IF methods = << >> THEN [val |-> << >>]
    ELSE [val |-> (IF Head(methods) \notin {"", "raise"} THEN << RawCriterion(Head(methods)) >> ELSE << >>)
                  \o HookConditions(Tail(methods)).val]

\* the loop over the hook methods in Engine.get_permission_query_conditions: a hook returns a
\* condition string, returns nothing (""), or raises
HookConditions(methods) ==
    IF methods = << >> THEN [val |-> << >>]
    ELSE IF Head(methods) = "raise" THEN Raise("HookError")
    ELSE ConcatVal([val |-> IF Head(methods) # "" THEN << RawCriterion(Head(methods)) >> ELSE << >>],
                   HookConditions(Tail(methods)))

\* get_permission_query_conditions, lines 1472-1480: the condition of the permission query script
ScriptCondition(hooks) ==
    IF Failed(hooks) THEN hooks
    ELSE IF env.script = "none" THEN hooks
    ELSE IF env.script = "raise" THEN Raise("HookError")
    ELSE IF env.script # "" THEN [val |-> Append(hooks.val, RawCriterion(env.script))]
    ELSE hooks

\* Engine.get_permission_query_conditions
get_permission_query_conditions == ScriptCondition(HookConditions(env.hooks))

RECURSIVE Criterion_all(_)
\* Criterion.all: the conjunction of a non-empty list of criteria
Criterion_all(conditions) ==
    IF Len(conditions) = 1 THEN conditions[1]
    ELSE AndC(Criterion_all(SubSeq(conditions, 1, Len(conditions) - 1)), conditions[Len(conditions)])

\* the inner join of the parent table for a child-table query
ParentJoin(doctype, permission_doctype) ==
    [table |-> permission_doctype, how |-> "inner", main |-> doctype,
     on_left |-> "name", on_right |-> "parent", parenttype |-> "", parentfield |-> ""]

\* add_permission_conditions, lines 1412-1416: the joins once the parent table is joined
PermissionJoins(pd) ==
    IF pd # engine.doctype THEN Append(query.joins, ParentJoin(engine.doctype, pd)) ELSE query.joins

\* an owner condition in the place of the condition on the shared documents
SharedCondition_owner(pd) == Cmp(Field(pd, "owner"), "=", PyStr(args.user))

\* permission_table.name.isin(shared_docs)
SharedCondition(pd) == Cmp(Field(pd, "name"), "in", StrList(env.shared))

\* add_permission_conditions, lines 1435-1442: the owner constraint, or else the user permissions
OwnerOrUserConditions(role_permissions, pd) ==
    IF requires_owner_constraint(role_permissions)
    THEN << Cmp(Field(pd, "owner"), "=", PyStr(args.user)) >>
    ELSE get_user_permission_conditions(pd)

\* the conditions combined by AND with the shared documents left out
PermissionWhere_unshared(conditions, pd) == Criterion_all(conditions)

\* add_permission_conditions, lines 1450-1456: the conditions combined, and the shared documents
PermissionWhere(conditions, pd) ==
    IF env.shared # << >> THEN OrC(Criterion_all(conditions), SharedCondition(pd))
    ELSE Criterion_all(conditions)

\* add_permission_conditions, lines 1444-1458, once the hooks and the script have answered pqc
ConditionsApplied(pqc, owner_or_user, pd) ==
    IF Failed(pqc) THEN Fail(pqc.err) /\ UNCHANGED query
    ELSE /\ pc' = "finish"
         /\ exc' = exc
         /\ query' = IF owner_or_user \o pqc.val = << >>
                     THEN [query EXCEPT !.joins = PermissionJoins(pd)]
                     ELSE [query EXCEPT !.joins = PermissionJoins(pd),
                                        !.wheres = Append(@, PermissionWhere(owner_or_user \o pqc.val, pd))]

\* get_query, line 331, and Engine.add_permission_conditions
AddPermissionConditions ==
    /\ pc = "permissions"
    /\ UNCHANGED <<result, invitation, outbox, suspended, returned, endpoint>>
    /\ UNCHANGED <<args, env, fields, engine>>
    /\ IF ~apply_permissions
       THEN pc' = "finish" /\ UNCHANGED <<exc, query>>
       ELSE IF ~(get_role_permissions(engine.permission_doctype).read
                 \/ get_role_permissions(engine.permission_doctype).select)
       THEN IF env.shared = << >>
            THEN Fail("PermissionError") /\ UNCHANGED query
            ELSE /\ query' = [query EXCEPT !.joins = PermissionJoins(engine.permission_doctype),
                                           !.wheres = Append(@, SharedCondition(engine.permission_doctype))]
                 /\ pc' = "finish"
                 /\ exc' = exc
       ELSE ConditionsApplied(get_permission_query_conditions,
                              OwnerOrUserConditions(get_role_permissions(engine.permission_doctype),
                                                    engine.permission_doctype),
                              engine.permission_doctype)

\* get_query, lines 333-338: the plan is frozen and returned
Finish ==
    /\ pc = "finish"
    /\ UNCHANGED <<result, invitation, outbox, suspended, returned, endpoint>>
    /\ pc' = "done"
    /\ query' = [query EXCEPT !.fields_list = fields, !.immutable = TRUE]
    /\ UNCHANGED <<args, env, exc, fields, engine>>

Next ==
    \/ Setup
    \/ ApplyFields
    \/ ApplyFilters
    \/ ApplyOrFilters
    \/ ApplyLimit
    \/ ApplyGroupBy
    \/ ApplyOrderBy
    \/ AddPermissionConditions
    \/ Finish

(***************************************************************************)
(* Inputs.  A call's arguments and the collaborators' answers are drawn    *)
(* in the initial state and stay fixed during the call.                    *)
(***************************************************************************)
DefaultArgs ==
    [table |-> "Doc", mode |-> "select", fields |-> PyNone, filters |-> PyNone, or_filters |-> PyNone,
     group_by |-> << >>, order_by |-> << >>, limit |-> PyNone, offset |-> PyNone,
     distinct |-> FALSE, for_update |-> FALSE, ignore_permissions |-> TRUE,
     ignore_user_permissions |-> FALSE, user |-> "u1", parent_doctype |-> "", reference_doctype |-> "",
     table_object |-> FALSE]

RolePerm(read, select, if_owner, has_if_owner_enabled) ==
    [read |-> read, select |-> select, if_owner |-> if_owner, has_if_owner_enabled |-> has_if_owner_enabled]

\* the answers get_role_permissions can give: if_owner lists held permission types only, and is
\* empty unless some applicable permission rule has if_owner set
RolePermissions ==
    {RolePerm(r, sl, io, hio) : r \in BOOLEAN, sl \in BOOLEAN, io \in SUBSET PTypes, hio \in BOOLEAN} \cap
    {rp \in [read : BOOLEAN, select : BOOLEAN, if_owner : SUBSET PTypes, has_if_owner_enabled : BOOLEAN] :
        /\ \A pt \in rp.if_owner : rp[pt]
        /\ rp.if_owner # {} => rp.has_if_owner_enabled}

ReadRole == RolePerm(TRUE, FALSE, {}, FALSE)
SelectRole == RolePerm(FALSE, TRUE, {}, FALSE)

\* the columns of each doctype
Columns(doctype) ==
    CASE doctype = "Doc" -> {"name", "owner", "title", "secret", "link_field", "ref_field", "_user_tags"}
      [] doctype = "Target" -> {"name", "owner", "public_field", "restricted_field"}
      [] doctype = "Child" -> {"name", "parent", "parentfield", "qty", "cost"}
      [] OTHER -> {}

\* permitted-field sets the oracle answers with: everything, or everything but the permlevel-1
\* field, for read; the name and the search field for select
Level1Field(doctype) ==
    CASE doctype = "Doc" -> "secret" [] doctype = "Target" -> "restricted_field" [] OTHER -> "cost"
SelectFields(doctype) ==
    CASE doctype = "Doc" -> {"name", "title"} [] doctype = "Target" -> {"name", "public_field"}
      [] OTHER -> {"name", "qty"}
Permitted(doctype, level1) ==
    [pt \in PTypes |->
        IF pt = "select" THEN SelectFields(doctype)
        ELSE IF level1 THEN Columns(doctype) ELSE Columns(doctype) \ {Level1Field(doctype)}]

DefaultEnv ==
    [db_type |-> "mariadb",
     role |-> [d \in Doctypes |-> ReadRole],
     has_permission |-> [pt \in PTypes |-> TRUE],
     target_has_permission |-> [pt \in PTypes |-> TRUE],
     permitted |-> [d \in Doctypes |-> Permitted(d, FALSE)],
     has_perm_rules |-> [d \in Doctypes |-> TRUE],
     user_permissions |-> [d \in Doctypes |-> << >>],
     shared |-> << >>,
     strict_user_permissions |-> FALSE,
     hooks |-> << >>,
     script |-> "none",
     sort_field |-> "modified",
     sort_order |-> "desc",
     rows |-> << >>,
     child_rows |-> << >>]

\* no User Invitation document takes part in a get_query call
NoCall == [op |-> "", on |-> "", allowed |-> TRUE, raised |-> ""]
NoInvitation == [status |-> "", saved |-> "", email |-> "", user |-> "", call |-> NoCall]
InvitationNames == {"inv1", "inv2"}

\* the call does not come from the REST endpoint document_list
NoRest == [limit |-> 0, start |-> 0, as_dict |-> TRUE, responded |-> FALSE, has_next_page |-> FALSE, data |-> << >>]

\* no other request is in progress next to the call
NoRequest == [pc |-> "none"]

InitCall ==
    /\ pc = "setup"
    /\ exc = ""
    /\ fields = << >>
    /\ query = EmptyQuery
    /\ engine = EmptyEngine
    /\ result = << >>
    /\ invitation = [n \in InvitationNames |-> NoInvitation]
    /\ outbox = << >>
    /\ suspended = NoRequest
    /\ returned = << >>
    /\ endpoint = NoRest

RECURSIVE SeqsUpTo(_, _)
\* the sequences over S of length at most n
SeqsUpTo(S, n) ==
    IF n = 0 THEN {<< >>}
    ELSE LET shorter == SeqsUpTo(S, n - 1) IN
         shorter \cup {Append(q, x) : q \in {z \in shorter : Len(z) = n - 1}, x \in S}

(***************************************************************************)
(* Field selection under permissions.                                      *)
(***************************************************************************)
MaxFields == 2

ChildQueryItem(fieldname, child_fields) ==
    PyDict(<< <<fieldname, PyList([i \in 1..Len(child_fields) |-> PyStr(child_fields[i])])>> >>)

SelectItems ==
    {PyStr(x) : x \in {"*", "name", "title", "secret", "_user_tags", "link_field.public_field",
                       "link_field.restricted_field", "items.qty", "items.cost", "^tabDoc^.^secret^",
                       "title;"}}
    \cup {ChildQueryItem("items", <<"qty", "cost">>)}

InitFields ==
    /\ InitCall
    /\ \E fs \in SeqsUpTo(SelectItems, MaxFields), ip \in BOOLEAN :
          args = [DefaultArgs EXCEPT !.fields = IF fs = << >> THEN PyNone ELSE PyList(fs),
                                     !.ignore_permissions = ip]
    /\ \E role \in {ReadRole, SelectRole}, l1 \in BOOLEAN, tl1 \in BOOLEAN, tp \in BOOLEAN :
          env = [DefaultEnv EXCEPT !.role["Doc"] = role,
                                   !.permitted["Doc"] = Permitted("Doc", l1),
                                   !.permitted["Target"] = Permitted("Target", tl1),
                                   !.target_has_permission = [pt \in PTypes |-> tp]]

SpecFields == InitFields /\ [][Next]_vars

(***************************************************************************)
(* C1.  Field permissions.                                                 *)
(***************************************************************************)
Returned == pc = "done"

PermittedColumn(col) ==
    col.name \in get_permitted_fields(col.table, "", get_permission_type(col.table))

StarOnly == args.fields = PyList(<<PyStr("*")>>)
StarExpansion ==
    {query.select[i].name : i \in 1..Len(query.select)} =
        get_permitted_fields(engine.doctype, "", get_permission_type(engine.doctype))

\* C1 as stated: with permissions enforced, every column of the output field list is in the
\* acting user's permitted-field set for the permission type in force, and * is expanded to
\* exactly the permitted columns
C1_AllColumnsPermitted ==
    (Returned /\ apply_permissions) =>
        /\ \A i \in 1..Len(query.select) : PermittedColumn(query.select[i])
        /\ StarOnly => StarExpansion

\* C1 amended: with permissions enforced, every column of the output field list is in the
\* permitted-field set of its doctype for the permission type in force, or is one of the optional
\* fields (_user_tags, _comments, _assign, _liked_by) of the queried doctype, which are passed
\* through unchecked; the child fields of every child query are permitted; * is expanded to
\* exactly the permitted columns
C1_ColumnsPermittedOrOptional ==
    (Returned /\ apply_permissions) =>
        /\ \A i \in 1..Len(query.select) :
              \/ PermittedColumn(query.select[i])
              \/ query.select[i].table = engine.doctype /\ query.select[i].name \in OPTIONAL_FIELDS
        /\ \A i \in 1..Len(query.child_queries) :
              SeqToSet(query.child_queries[i].fields) \subseteq
                 get_permitted_fields(query.child_queries[i].doctype, engine.doctype,
                                      get_permission_type(query.child_queries[i].doctype))
        /\ StarOnly => StarExpansion

\* a plan returned for a request that named the permlevel-1 column and a permitted one, under
\* enforced permissions without permlevel-1 access: the column was dropped
C1_Witness ==
    /\ Returned /\ apply_permissions
    /\ args.fields = PyList(<<PyStr("secret"), PyStr("title")>>)
    /\ "secret" \notin get_permitted_fields("Doc", "", get_permission_type("Doc"))
    /\ query.select = << Field("Doc", "title") >>

(***************************************************************************)
(* One field reference in one argument of the call.                        *)
(***************************************************************************)
RefStrings ==
    {"title", "secret", "_user_tags", "link_field.public_field", "link_field.restricted_field",
     "items.qty", "items.cost", "^tabDoc^.^secret^", "title;"}
RefForms == {"fields", "dict", "single", "flat", "nested", "or_filters", "group_by", "order_by"}

\* the simple filter [f, "=", "x"]
Eq(f) == PyList(<<PyStr(f), PyStr("="), PyStr("x")>>)

\* the arguments of a call that refers to the field string r in the argument form names
RefArgs(r, form) ==
    CASE form = "fields" -> [DefaultArgs EXCEPT !.fields = PyList(<<PyStr(r)>>)]
      [] form = "dict" -> [DefaultArgs EXCEPT !.filters = PyDict(<< <<r, PyStr("x")>> >>)]
      [] form = "single" -> [DefaultArgs EXCEPT !.filters = PyList(<<Eq(r)>>)]
      [] form = "flat" -> [DefaultArgs EXCEPT !.filters = PyList(<<Eq("title"), Eq(r)>>)]
      [] form = "nested" -> [DefaultArgs EXCEPT !.filters = PyList(<<Eq("title"), PyStr("or"), Eq(r)>>)]
      [] form = "or_filters" -> [DefaultArgs EXCEPT !.or_filters = PyDict(<< <<r, PyStr("x")>> >>)]
      [] form = "group_by" -> [DefaultArgs EXCEPT !.group_by = <<r>>]
      [] form = "order_by" -> [DefaultArgs EXCEPT !.order_by = <<[field |-> r, direction |-> "asc"]>>]

InitRef ==
    /\ InitCall
    /\ \E r \in RefStrings, form \in RefForms, table \in {"Doc", "Doc;x"}, ip \in BOOLEAN, distinct \in BOOLEAN :
          args = [RefArgs(r, form) EXCEPT !.table = table, !.ignore_permissions = ip, !.distinct = distinct]
    /\ \E sel \in BOOLEAN, rd \in BOOLEAN, l1 \in BOOLEAN, rules \in BOOLEAN, db \in {"mariadb", "postgres"} :
          env = [DefaultEnv EXCEPT !.has_permission = [pt \in PTypes |-> IF pt = "select" THEN sel ELSE rd],
                                   !.permitted["Doc"] = Permitted("Doc", l1),
                                   !.has_perm_rules["Doc"] = rules,
                                   !.db_type = db]

SpecRef == InitRef /\ [][Next]_vars

(***************************************************************************)
(* C2.  The read-permission check comes before any parsing.                *)
(***************************************************************************)
NoReadPermission == ~env.has_permission["select"] /\ ~env.has_permission["read"]
Started == pc # "setup"

\* C2: with permissions enforced on a validly named entity, a user with neither select nor read
\* permission gets PermissionError as soon as get_query has started, whatever the fields, filters,
\* group_by and order_by arguments contain: none of them has been parsed into the plan, and the
\* call never goes on to return a query
C2_PermissionErrorBeforeParsing ==
    (Started /\ apply_permissions /\ validate_doctype(args.table) /\ NoReadPermission) =>
        /\ pc = "error" /\ exc = "PermissionError"
        /\ fields = << >> /\ query = EmptyQuery

\* a call whose group_by is malformed, by a user without select and read: PermissionError
C2_Witness ==
    /\ pc = "error" /\ exc = "PermissionError"
    /\ apply_permissions /\ NoReadPermission
    /\ args.group_by = <<"title;">>

(***************************************************************************)
(* Rows, and the truth of a criterion in a row.  A comparison with NULL is *)
(* not true; a raw condition is true in the rows that list it.             *)
(***************************************************************************)
CmpHolds(x, op, v) ==
    CASE op = "=" -> x # PyNone /\ x = v
      [] op = "!=" -> x # PyNone /\ x # v
      [] op = "in" -> x # PyNone /\ \E i \in 1..Len(v.v) : v.v[i] = x
      [] OTHER -> FALSE

RECURSIVE Eval(_, _)
Eval(crit, row) ==
    CASE crit.c = "cmp" -> CmpHolds(row[crit.f.name], crit.op, crit.v)
      [] crit.c = "isnull" -> row[crit.f.name] = PyNone
      [] crit.c = "ifnull_empty" -> row[crit.f.name] \in {PyNone, PyStr("")}
      [] crit.c = "raw" -> crit.s \in row.raw
      [] crit.c = "and" -> Eval(crit.l, row) /\ Eval(crit.r, row)
      [] crit.c = "or" -> Eval(crit.l, row) \/ Eval(crit.r, row)

\* the row satisfies the WHERE clause of the plan
WhereHolds(row) == \A i \in 1..Len(query.wheres) : Eval(query.wheres[i], row)

RECURSIVE SubCriteria(_)
\* the criterion and every criterion it is built from
SubCriteria(crit) ==
    IF crit.c \in {"and", "or"} THEN {crit} \cup SubCriteria(crit.l) \cup SubCriteria(crit.r)
    ELSE {crit}

(***************************************************************************)
(* Permission conditions: role permissions, sharing, user permissions,     *)
(* hooks and the permission query script.                                  *)
(***************************************************************************)
UserPermission(doc, applicable_for) == [doc |-> doc, applicable_for |-> applicable_for]

\* the user permissions of the acting user, by the doctype they restrict
UserPermissionChoices ==
    { [d \in Doctypes |-> << >>],
      [d \in Doctypes |-> IF d = "Doc" THEN << UserPermission("d1", "") >> ELSE << >>],
      [d \in Doctypes |-> IF d = "Doc" THEN << UserPermission("d1", "Ref") >> ELSE << >>],
      [d \in Doctypes |-> IF d = "Target" THEN << UserPermission("t1", "") >> ELSE << >>],
      [d \in Doctypes |-> IF d = "Target" THEN << UserPermission("t1", "Other") >> ELSE << >>],
      [d \in Doctypes |-> IF d = "Doc" THEN << UserPermission("d1", "") >>
                          ELSE IF d = "Target" THEN << UserPermission("t1", "Doc"), UserPermission("t2", "Other") >>
                          ELSE << >>] }

HookChoices == { << >>, <<"h1">>, <<"raise">>, <<"", "h1">>, <<"h1", "raise">> }
ScriptChoices == {"none", "", "s1", "raise"}

InitPerm ==
    /\ InitCall
    /\ \E flt \in {PyNone, PyDict(<< <<"title", PyStr("x")>> >>)}, ip \in BOOLEAN, iup \in BOOLEAN,
          ref \in {"", "Ref"} :
          args = [DefaultArgs EXCEPT !.filters = flt, !.ignore_permissions = ip,
                                     !.ignore_user_permissions = iup, !.reference_doctype = ref]
    /\ \E role \in RolePermissions, shared \in {<< >>, <<"d2">>}, ups \in UserPermissionChoices,
          strict \in BOOLEAN, hooks \in HookChoices, script \in ScriptChoices :
          env = [DefaultEnv EXCEPT !.role["Doc"] = role, !.shared = shared, !.user_permissions = ups,
                                   !.strict_user_permissions = strict, !.hooks = hooks, !.script = script]

SpecPerm == InitPerm /\ [][Next]_vars

\* the rows the permission conditions are evaluated in
PermRows ==
    [name : {PyStr("d1"), PyStr("d2")}, owner : {PyStr("u1"), PyStr("u2")},
     title : {PyStr("x"), PyStr("y")}, link_field : {PyNone, PyStr(""), PyStr("t1"), PyStr("t2")},
     ref_field : {PyStr("t2")}, raw : SUBSET {"h1", "s1"}]

\* the entity the permissions are taken from
PermissionDoctype == IF args.parent_doctype # "" THEN args.parent_doctype ELSE args.table
HasRolePermission ==
    get_role_permissions(PermissionDoctype).read \/ get_role_permissions(PermissionDoctype).select

\* the caller's own filters, and what the plan's WHERE clause holds besides them
CallerFilterCount == IF args.filters = PyNone THEN 0 ELSE 1
CallerFiltersHold(row) == args.filters = PyNone \/ row.title = PyStr("x")
PermissionRestriction ==
    IF Len(query.wheres) > CallerFilterCount THEN {query.wheres[Len(query.wheres)]} ELSE {}
RestrictionParts == UNION {SubCriteria(c) : c \in PermissionRestriction}
SharedNames == {PyStr(env.shared[i]) : i \in 1..Len(env.shared)}

(***************************************************************************)
(* C3.  Owner scoping.                                                     *)
(***************************************************************************)
\* the user holds select or read at role level, and every one of the two it holds is if-owner gated
OwnerGated ==
    /\ HasRolePermission
    /\ \A pt \in PTypes : get_role_permissions(PermissionDoctype)[pt] =>
                             pt \in get_role_permissions(PermissionDoctype).if_owner

OwnerCondition == Cmp(Field(PermissionDoctype, "owner"), "=", PyStr(args.user))

\* a condition that restricts a field to a list of documents and is not the shared-documents one
IsUserPermissionCondition(c) ==
    \/ c.c = "ifnull_empty"
    \/ c.c = "cmp" /\ c.op = "in" /\ c # SharedCondition(PermissionDoctype)

\* C3: with permissions enforced, when every select/read role permission the user holds is
\* if-owner gated, the returned plan's permission restriction contains owner = acting user and
\* no user-permission condition, and a row owned by another user satisfies the WHERE clause only
\* if its name is in the acting user's shared-document list
C3_OwnerScoping ==
    (Returned /\ apply_permissions /\ OwnerGated) =>
        /\ OwnerCondition \in RestrictionParts
        /\ \A c \in RestrictionParts : ~IsUserPermissionCondition(c)
        /\ \A row \in PermRows :
              (row.owner # PyStr(args.user) /\ WhereHolds(row)) => row.name \in SharedNames

\* a plan returned to an owner-gated user who has user permissions and a shared document: the
\* restriction is (owner = user) OR name IN (shared), although user permissions exist
C3_Witness ==
    /\ Returned /\ apply_permissions /\ OwnerGated
    /\ ~args.ignore_user_permissions
    /\ env.user_permissions["Doc"] # << >>
    /\ env.shared = <<"d2">>
    /\ env.hooks = << >> /\ env.script = "none"
    /\ PermissionRestriction = {OrC(OwnerCondition, SharedCondition("Doc"))}
    /\ \E row \in PermRows : row.owner # PyStr(args.user) /\ WhereHolds(row)

(***************************************************************************)
(* C4.  How the permission conditions are combined.                        *)
(***************************************************************************)
\* the owner, user-permission and hook/script conditions of the call (the hooks did not raise)
ResultingConditions ==
    OwnerOrUserConditions(get_role_permissions(PermissionDoctype), PermissionDoctype)
        \o get_permission_query_conditions.val

AllHold(conditions, row) == \A i \in 1..Len(conditions) : Eval(conditions[i], row)

\* C4: when role-level read or select is granted, the returned plan has no permission restriction
\* if no owner, user-permission or hook/script condition resulted; otherwise a row satisfies the
\* WHERE clause exactly when it satisfies the caller's filters and either all of those conditions
\* or, when the user has shared documents, has its name among the shared documents
C4_RestrictionCombined ==
    (Returned /\ apply_permissions /\ HasRolePermission) =>
        /\ ResultingConditions = << >> => PermissionRestriction = {}
        /\ ResultingConditions # << >> => PermissionRestriction # {}
        /\ \A row \in PermRows :
              WhereHolds(row) <=>
                 /\ CallerFiltersHold(row)
                 /\ \/ ResultingConditions = << >>
                    \/ AllHold(ResultingConditions, row)
                    \/ env.shared # << >> /\ row.name \in SharedNames

\* a plan with a caller filter, a user-permission condition and a hook condition, for a user with a
\* shared document: a shared row that fails the hook condition satisfies the WHERE clause, and a
\* row that satisfies the permission conditions but not the caller's filter does not
C4_Witness ==
    /\ Returned /\ apply_permissions /\ HasRolePermission
    /\ args.filters # PyNone
    /\ Len(ResultingConditions) = 2
    /\ env.shared = <<"d2">>
    /\ \E row \in PermRows :
          row.name = PyStr("d2") /\ ~AllHold(ResultingConditions, row) /\ WhereHolds(row)
    /\ \E row \in PermRows :
          AllHold(ResultingConditions, row) /\ ~CallerFiltersHold(row) /\ ~WhereHolds(row)

(***************************************************************************)
(* C5.  User-permission conditions.                                        *)
(***************************************************************************)
\* the primary key as a link to the entity itself, and the link fields of the entity
LinkFields == {DF("name", "", PermissionDoctype, FALSE)} \cup
              {df \in SeqToSet(MetaFields(PermissionDoctype)) : df.fieldtype = "Link"}

OwnerConstraintApplies == requires_owner_constraint(get_role_permissions(PermissionDoctype))

\* every document the user is restricted to on the target entity of df
RestrictedValues(df) ==
    StrList([i \in 1..Len(env.user_permissions[df.options]) |-> env.user_permissions[df.options][i].doc])

\* the user permission applies to df: it has no applicable_for, or its applicable_for is the
\* permission-scoped entity (for the primary key, the reference doctype when one is given)
Applicable(permission, df) ==
    \/ permission.applicable_for = ""
    \/ permission.applicable_for =
          IF df.fieldname = "name" /\ args.reference_doctype # "" THEN args.reference_doctype
          ELSE PermissionDoctype
ApplicableValues(df) ==
    StrList([i \in 1..Len(SelectSeq(env.user_permissions[df.options], LAMBDA p : Applicable(p, df))) |->
                SelectSeq(env.user_permissions[df.options], LAMBDA p : Applicable(p, df))[i].doc])

LinkColumn(df) == Field(PermissionDoctype, df.fieldname)

\* the conditions that let a row with no value in the field through
NullPassThrough(df) == {IsNullC(LinkColumn(df)), IfNullEmptyC(LinkColumn(df))}

HooksCalled == apply_permissions /\ HasRolePermission
HookRaises == \E i \in 1..Len(env.hooks) : env.hooks[i] = "raise"
ScriptRaises == env.script = "raise"
PlanProduced == pc \in {"finish", "done"}

\* the conditions the hooks and the script answer with
HookStrings == {env.hooks[i] : i \in 1..Len(env.hooks)} \ {"", "raise"}
ScriptStrings == {env.script} \ {"none", "", "raise"}

\* C7: when a permission-query-condition hook or the permission query script raises, get_query
\* ends with that exception and no plan is produced; every plan that is produced contains the
\* condition of every hook and of the script
C7_HookFailureAborts ==
    HooksCalled =>
        /\ (HookRaises \/ ScriptRaises) => ~PlanProduced
        /\ PlanProduced => \A h \in HookStrings \cup ScriptStrings : RawCriterion(h) \in RestrictionParts
        /\ (pc = "error" /\ exc = "HookError") => (HookRaises \/ ScriptRaises)

\* the second hook raised after the first one answered with a condition: the call ended with the
\* hook's exception
C7_Witness ==
    /\ HooksCalled
    /\ env.hooks = <<"h1", "raise">>
    /\ pc = "error" /\ exc = "HookError"

(***************************************************************************)
(* C6.  References to fields outside the permitted set.                    *)
(***************************************************************************)
\* the column a reference string names
RefColumn(r) ==
    CASE r = "title" -> [doctype |-> "Doc", fieldname |-> "title"]
      [] r = "secret" -> [doctype |-> "Doc", fieldname |-> "secret"]
      [] r = "^tabDoc^.^secret^" -> [doctype |-> "Doc", fieldname |-> "secret"]
      [] r = "_user_tags" -> [doctype |-> "Doc", fieldname |-> "_user_tags"]
      [] r = "link_field.public_field" -> [doctype |-> "Target", fieldname |-> "public_field"]
      [] r = "link_field.restricted_field" -> [doctype |-> "Target", fieldname |-> "restricted_field"]
      [] r = "items.qty" -> [doctype |-> "Child", fieldname |-> "qty"]
      [] r = "items.cost" -> [doctype |-> "Child", fieldname |-> "cost"]
ColumnRefs == RefStrings \ {"title;"}

OutsidePermitted(r) ==
    RefColumn(r).fieldname \notin
        get_permitted_fields(RefColumn(r).doctype, "", get_permission_type(RefColumn(r).doctype))

\* the call refers to r in the argument form names, and nowhere else
ArgsRefer(r, form) ==
    args = [RefArgs(r, form) EXCEPT !.table = args.table, !.ignore_permissions = args.ignore_permissions,
                                    !.distinct = args.distinct]

CallEnded == pc \in {"done", "error"}

\* C6 as stated, for dict filters, flat list filters, or_filters, group_by and order_by: with
\* permissions enforced on an entity the user may read and that has permission rules, a call that
\* refers to a field outside the user's permitted set ends with PermissionError
C6_UnpermittedReferenceRaises ==
    \A r \in ColumnRefs, form \in {"dict", "flat", "or_filters", "group_by", "order_by"} :
        (/\ CallEnded /\ apply_permissions /\ validate_doctype(args.table) /\ check_read_permission
         /\ env.has_perm_rules["Doc"] /\ env.db_type = "mariadb"
         /\ ArgsRefer(r, form) /\ OutsidePermitted(r))
        => (pc = "error" /\ exc = "PermissionError")

(***************************************************************************)
(* Filter expressions: nested boolean trees, the dict and the list form of *)
(* one equality, and lists that mix conditions with strings.               *)
(***************************************************************************)
MaxFilterLen == 3

Cond2(f, v) == PyList(<<PyStr(f), PyStr(v)>>)
Cond3(f, op, v) == PyList(<<PyStr(f), PyStr(op), PyStr(v)>>)

\* leaf conditions on the field f
Leaves(f) == {Cond3(f, "=", "x"), Cond3(f, "!=", "x"), Cond3(f, "=", "y"), Cond2(f, "x")}

\* [[a, o1, b], o2, [c, o3, d]]
Tree(a, o1, b, o2, c, o3, d) ==
    PyList(<<PyList(<<a, PyStr(o1), b>>), PyStr(o2), PyList(<<c, PyStr(o3), d>>)>>)

NestedTrees ==
    {Tree(a, o1, b, o2, c, o1, d) :
        a \in Leaves("name"), b \in Leaves("owner"), c \in Leaves("title"), d \in Leaves("secret"),
        o1 \in {"and", "AND"}, o2 \in {"or", "Or"}}

\* {f: v} and [[f, "=", v]]
DictForm(f, v) == PyDict(<< <<f, v>> >>)
ListForm(f, v) == PyList(<<PyList(<<PyStr(f), PyStr("="), v>>)>>)

PairFields == {"title", "secret", "link_field.public_field", "items.qty", "title;"}
ScalarValues == {PyStr("x"), PyInt(1), PyBool(TRUE), PyNone}
ListValues ==
    {PyList(<<PyStr("!="), PyStr("x")>>), PyList(<<PyStr("x"), PyStr("y"), PyStr("z")>>), PyList(<< >>)}
PairValues == ScalarValues \cup ListValues

PairForms == {DictForm(f, v) : f \in PairFields, v \in PairValues}
                \cup {ListForm(f, v) : f \in PairFields, v \in PairValues}

\* the elements of the lists that mix conditions, strings and other values
MixItems == {Eq("title"), Eq("name"), PyStr("and"), PyStr("OR"), PyStr("xor"), PyInt(1)}
MixedLists == {PyList(q) : q \in SeqsUpTo(MixItems, MaxFilterLen) \ {<< >>}}

InitFilter ==
    /\ InitCall
    /\ \E f \in NestedTrees \cup PairForms \cup MixedLists, ip \in BOOLEAN :
          args = [DefaultArgs EXCEPT !.filters = f, !.ignore_permissions = ip]
    /\ \E l1 \in BOOLEAN :
          env = [DefaultEnv EXCEPT !.permitted["Doc"] = Permitted("Doc", l1)]

SpecFilter == InitFilter /\ [][Next]_vars

\* the filters argument has been applied and the call went on
FiltersDone == pc \in {"or_filters", "limit", "group_by", "order_by", "permissions", "finish", "done"}

(***************************************************************************)
(* C8.  The truth table of a nested tree.                                  *)
(***************************************************************************)
FilterRows ==
    [name : {PyStr("x"), PyStr("y"), PyNone}, owner : {PyStr("x"), PyStr("y"), PyNone},
     title : {PyStr("x"), PyStr("y"), PyNone}, secret : {PyStr("x"), PyStr("y"), PyNone}]

IsLeaf(c) ==
    /\ c.k = "list" /\ Len(c.v) \in {2, 3}
    /\ \A i \in 1..Len(c.v) : IsStr(c.v[i])

IsPair(g) ==
    /\ g.k = "list" /\ Len(g.v) = 3
    /\ IsLeaf(g.v[1]) /\ IsStr(g.v[2]) /\ lower(g.v[2].v) = "and" /\ IsLeaf(g.v[3])

\* the filters argument is [[A, "and", B], "or", [C, "and", D]]
TreeCall ==
    /\ args.filters.k = "list" /\ Len(args.filters.v) = 3
    /\ IsPair(args.filters.v[1]) /\ IsPair(args.filters.v[3])
    /\ IsStr(args.filters.v[2]) /\ lower(args.filters.v[2].v) = "or"

LeafA == args.filters.v[1].v[1]
LeafB == args.filters.v[1].v[3]
LeafC == args.filters.v[3].v[1]
LeafD == args.filters.v[3].v[3]

\* the truth of a leaf [f, op, v] or [f, v] in a row
LeafHolds(leaf, row) ==
    IF Len(leaf.v) = 2 THEN CmpHolds(row[leaf.v[1].v], "=", leaf.v[2])
    ELSE CmpHolds(row[leaf.v[1].v], leaf.v[2].v, leaf.v[3])

TreeHolds(row) ==
    \/ LeafHolds(LeafA, row) /\ LeafHolds(LeafB, row)
    \/ LeafHolds(LeafC, row) /\ LeafHolds(LeafD, row)

\* C8: for leaf conditions A, B, C, D the filter [[A, "and", B], "or", [C, "and", D]] yields one
\* WHERE condition, and that condition is true of a row exactly when (A and B) or (C and D) is,
\* whatever truth values the row gives the four leaves; without permission checks the call returns
C8_NestedTreeTruthTable ==
    /\ (TreeCall /\ FiltersDone) =>
          \A row \in FilterRows : Eval(query.wheres[1], row) <=> TreeHolds(row)
    /\ (TreeCall /\ CallEnded /\ ~apply_permissions) => pc = "done" /\ Len(query.wheres) = 1

\* a plan returned for a tree whose leaves are on four columns: every one of the sixteen
\* assignments of truth values to the leaves is given by some row
C8_Witness ==
    /\ TreeCall /\ pc = "done"
    /\ LeafB = Cond3("owner", "!=", "x") /\ LeafD = Cond2("secret", "x")
    /\ \A t \in [{"a", "b", "c", "d"} -> BOOLEAN] :
          \E row \in FilterRows :
              /\ LeafHolds(LeafA, row) = t["a"] /\ LeafHolds(LeafB, row) = t["b"]
              /\ LeafHolds(LeafC, row) = t["c"] /\ LeafHolds(LeafD, row) = t["d"]
              /\ Eval(query.wheres[1], row) = ((t["a"] /\ t["b"]) \/ (t["c"] /\ t["d"]))

(***************************************************************************)
(* C9.  The dict form and the list form of one equality.                   *)
(***************************************************************************)
\* what apply_filters makes of a filters argument in a plan without conditions
FilterOutcome(filters) ==
    apply_filters(filters, FALSE,
                  [wheres |-> << >>, joins |-> << >>, cache |-> EmptyEngine.permitted_fields_cache,
                   collect |-> << >>])

\* the call applied one form of (f, v) as the other form would have been: both rejected, or the
\* same WHERE conditions and joins
SameAs(other) ==
    /\ pc = "error" => Failed(FilterOutcome(other))
    /\ pc = "or_filters" =>
          /\ ~Failed(FilterOutcome(other))
          /\ query.wheres = FilterOutcome(other).wheres
          /\ query.joins = FilterOutcome(other).joins

PairAgrees(f, v) ==
    /\ (args.filters.k = "dict" /\ args.filters = DictForm(f, v)) => SameAs(ListForm(f, v))
    /\ (args.filters.k = "list" /\ args.filters = ListForm(f, v)) => SameAs(DictForm(f, v))

\* C9 as stated: for every field f and every value v, the dict filter {f: v} produces the same
\* WHERE condition as the list filter [[f, "=", v]]
C9_DictEqualsList ==
    \A f \in PairFields, v \in PairValues : PairAgrees(f, v)

\* C9 amended: for every field f and every value v that is not a list or tuple, the dict filter
\* {f: v} and the list filter [[f, "=", v]] are both rejected or produce the same WHERE condition
C9_DictEqualsListForScalars ==
    \A f \in PairFields, v \in ScalarValues : PairAgrees(f, v)

\* the dict form of an equality on a link-field path has been applied
C9_Witness ==
    /\ pc = "or_filters"
    /\ args.filters = DictForm("link_field.public_field", PyInt(1))
    /\ query.wheres = << Cmp(Field("Target", "public_field"), "=", PyInt(1)) >>
    /\ query.wheres = FilterOutcome(ListForm("link_field.public_field", PyInt(1))).wheres

(***************************************************************************)
(* C10.  Lists that mix conditions with strings.                           *)
(***************************************************************************)
ListCall == args.filters.k = "list" /\ args.filters \in MixedLists

Mixed(q) == (\E i \in 1..Len(q) : q[i].k = "list") /\ (\E i \in 1..Len(q) : IsStr(q[i]))

\* condition, operator, condition, ... with every operator and or or in any letter case
StrictlyAlternating(q) ==
    /\ Len(q) % 2 = 1
    /\ \A i \in 1..Len(q) :
          IF i % 2 = 1 THEN q[i].k = "list"
          ELSE IsStr(q[i]) /\ lower(q[i].v) \in {"and", "or"}

Malformed(q) == Mixed(q) /\ ~StrictlyAlternating(q)

\* a string is the first element or stands at a second, fourth, ... position
StringFirstOrAtEvenPosition(q) ==
    IsStr(q[1]) \/ \E i \in 1..Len(q) : i % 2 = 0 /\ IsStr(q[i])

MaxJoinFields == 2

JoinRefs == {"link_field.public_field", "ref_field.public_field", "items.qty"}

\* the doctype a dotted reference leads to, and the link field it goes through ("" for a table field)
RefTarget(r) == IF r = "items.qty" THEN "Child" ELSE "Target"
RefLink(r) == CASE r = "link_field.public_field" -> "link_field"
                [] r = "ref_field.public_field" -> "ref_field"
                [] OTHER -> ""

InitJoin ==
    /\ InitCall
    /\ \E fs \in SeqsUpTo(JoinRefs, MaxJoinFields), fl \in JoinRefs \cup {""}, gb \in JoinRefs \cup {""},
          ob \in JoinRefs \cup {""}, ip \in BOOLEAN :
          args = [DefaultArgs EXCEPT
                     !.fields = IF fs = << >> THEN PyNone ELSE PyList([i \in 1..Len(fs) |-> PyStr(fs[i])]),
                     !.filters = IF fl = "" THEN PyNone ELSE PyDict(<< <<fl, PyStr("x")>> >>),
                     !.group_by = IF gb = "" THEN << >> ELSE <<gb>>,
                     !.order_by = IF ob = "" THEN << >> ELSE <<[field |-> ob, direction |-> "asc"]>>,
                     !.ignore_permissions = ip]
    /\ env = DefaultEnv

SpecJoin == InitJoin /\ [][Next]_vars

\* the references of the call that have been applied to the plan so far
FieldRefs == IF args.fields = PyNone THEN {} ELSE {args.fields.v[i].v : i \in 1..Len(args.fields.v)}
FilterRefs == IF args.filters = PyNone THEN {} ELSE {args.filters.v[i][1] : i \in 1..Len(args.filters.v)}
GroupByRefs == {args.group_by[i] : i \in 1..Len(args.group_by)}
OrderByRefs == {args.order_by[i].field : i \in 1..Len(args.order_by)}
AppliedRefs ==
    (IF pc \in {"setup", "fields", "error"} THEN {} ELSE FieldRefs)
    \cup (IF pc \in {"setup", "fields", "filters", "error"} THEN {} ELSE FilterRefs)
    \cup (IF pc \in {"order_by", "permissions", "finish", "done"} THEN GroupByRefs ELSE {})
    \cup (IF pc \in {"permissions", "finish", "done"} THEN OrderByRefs ELSE {})

JoinsTo(table) == {i \in 1..Len(query.joins) : query.joins[i].table = table}

(***************************************************************************)
(* C11.  Joins are not duplicated.                                         *)
(***************************************************************************)
\* C11: however often and through whichever of select, filter, group_by and order_by the
\* references to a dynamic field have been applied to the plan, the plan holds exactly one JOIN
\* to that field's target table, and no JOIN to a table no applied reference leads to
C11_OneJoinPerTarget ==
    \A table \in {"Target", "Child"} :
        Cardinality(JoinsTo(table)) =
            IF \E r \in AppliedRefs : RefTarget(r) = table THEN 1 ELSE 0

\* a returned plan whose select list, filter, group_by and order_by all referred to one field
C11_Witness ==
    /\ pc = "done"
    /\ args.fields = PyList(<<PyStr("items.qty"), PyStr("items.qty")>>)
    /\ FilterRefs = {"items.qty"} /\ GroupByRefs = {"items.qty"} /\ OrderByRefs = {"items.qty"}
    /\ Cardinality(JoinsTo("Child")) = 1

(***************************************************************************)
(* C12.  The join of a link-field reference.                               *)
(***************************************************************************)
\* the plan holds a LEFT JOIN of the target table of r on target.name = base.link_field
JoinedThrough(r) ==
    \E i \in 1..Len(query.joins) :
        /\ query.joins[i].table = RefTarget(r) /\ query.joins[i].how = "left"
        /\ query.joins[i].main = engine.doctype
        /\ query.joins[i].on_left = "name" /\ query.joins[i].on_right = RefLink(r)

\* C12 as stated: for every reference link_field.target_field used in a returned plan the plan
\* holds a LEFT JOIN of the target table on target.name = base.link_field for that link field,
\* also when two link fields of the base entity point to the same target
C12_JoinPerLinkField ==
    pc = "done" => \A r \in AppliedRefs : RefLink(r) # "" => JoinedThrough(r)

(***************************************************************************)
(* Function and operator dicts in the select list.                         *)
(***************************************************************************)
ArgStrings ==
    {"*", " ", "title", "secret", "1", "^tabDoc^.^secret^", "^secret^", "name; DROP TABLE users"}
        \cup DOMAIN QuotedContent

DictKeys == {"COUNT", "SUM", "NOW", "ADD", "DROP", "SLEEP", "sum", "Sum"}
FieldKeys == {"items", "title"}

DictValues ==
    {PyStr(a) : a \in ArgStrings}
    \cup {PyList(<<PyStr(a)>>) : a \in ArgStrings \cup {"qty"}}
    \cup {PyList(<<PyInt(1), PyStr(a)>>) : a \in ArgStrings}
    \cup {PyNone, PyInt(1), PyDict(<< <<"SUM", PyStr("title")>> >>),
          PyList(<<PyDict(<< <<"SUM", PyStr("title")>>, <<"as", PyStr("cnt")>> >>)>>),
          PyList(<<PyInt(1), PyDict(<< <<"DROP", PyStr("title")>> >>)>>)}

DictAliases == {PyNone, PyStr("total"), PyStr("title;")}

\* {key: value} or {key: value, "as": alias}
DictItem(key, value, alias) ==
    IF alias = PyNone THEN PyDict(<< <<key, value>> >>) ELSE PyDict(<< <<key, value>>, <<"as", alias>> >>)

InitFunction ==
    /\ InitCall
    /\ \E entry \in (DictKeys \X DictValues) \cup (FieldKeys \X {PyList(<<PyStr("qty")>>), PyStr("title")}),
          alias \in DictAliases, ip \in BOOLEAN :
          args = [DefaultArgs EXCEPT !.fields = PyList(<<DictItem(entry[1], entry[2], alias)>>),
                                     !.ignore_permissions = ip]
    /\ \E l1 \in BOOLEAN :
          env = [DefaultEnv EXCEPT !.permitted["Doc"] = Permitted("Doc", l1)]

SpecFunction == InitFunction /\ [][Next]_vars

\* the dict entry of the call, its key and its value
DictEntry == args.fields.v[1]
EntryKey == DictEntry.v[1][1]
EntryValue == DictEntry.v[1][2]

RECURSIVE HasFunctionCall(_)
\* a function call is part of the expression x
HasFunctionCall(x) ==
    IF ~IsTerm(x) THEN FALSE
    ELSE IF x.t = "Function" THEN TRUE
    ELSE IF x.t = "Arithmetic" THEN HasFunctionCall(x.left) \/ HasFunctionCall(x.right)
    ELSE IF x.t = "ValueWrapper" THEN HasFunctionCall(x.v)
    ELSE FALSE

PlanHasFunctionCall == \E i \in 1..Len(query.select) : HasFunctionCall(query.select[i])

(***************************************************************************)
(* C13.  Function keys outside the allow-list.                             *)
(***************************************************************************)
\* C13 as stated, for the keys that are no field of the entity: a dict entry whose key is not an
\* allowed function nor an arithmetic operator never puts a function call in the plan, and the
\* call ends in ValidationError
C13_UnknownFunctionIsValidationError ==
    (EntryKey \notin FUNCTION_MAPPING \cup OPERATOR_MAPPING /\ ~has_field("Doc", EntryKey)) =>
        /\ ~PlanHasFunctionCall
        /\ CallEnded => (pc = "error" /\ exc = "ValidationError")

(***************************************************************************)
(* C14.  Quoted string arguments.                                          *)
(***************************************************************************)
\* the contents that hold a statement terminator, a comment marker or an SQL keyword
DangerousContent == {"x; DROP TABLE users", "a -- b", "a /* b */", "1 UNION SELECT 2"}
DangerousQuoted == {x \in DOMAIN QuotedContent : QuotedContent[x] \in DangerousContent}

\* C14 as stated: a function dict whose argument is a quoted string with a statement terminator,
\* a comment marker or an SQL keyword in it ends in ValidationError, and the literal is not
\* returned into the plan
C14_DangerousLiteralRejected ==
    \A a \in DangerousQuoted :
        (CallEnded /\ is_function_dict(DictEntry) /\ EntryValue = PyStr(a)) =>
            (pc = "error" /\ exc = "ValidationError")

(***************************************************************************)
(* One field string in the select list.                                    *)
(***************************************************************************)
\* *, simple, backtick-quoted and table-qualified column names, with and without a one-word alias
WellFormedSelect ==
    {"*", "title", "^title^", "tabDoc.title", "^tabDoc^.^title^", "title as t1", "^title^ as t1",
     "tabDoc.title as t1"}

\* function-call syntax, statement terminator, comment markers, unbalanced backticks, a space or
\* a hyphen in the column name, an alias with a space in it
MalformedSelect ==
    {"COUNT(*)", "COUNT(title) as total", "title; DROP TABLE users", "title--comment",
     "title /* comment */", "^title", "title^", "tabDoc.^title", "invalid-field", "title x",
     "^title x^", "title as my alias", "title as ^my alias^"}

InitSelect ==
    /\ InitCall
    /\ \E f \in WellFormedSelect \cup MalformedSelect, as_list \in BOOLEAN, ip \in BOOLEAN :
          args = [DefaultArgs EXCEPT !.fields = IF as_list THEN PyList(<<PyStr(f)>>) ELSE PyStr(f),
                                     !.ignore_permissions = ip]
    /\ \E l1 \in BOOLEAN :
          env = [DefaultEnv EXCEPT !.permitted["Doc"] = Permitted("Doc", l1)]

SpecSelect == InitSelect /\ [][Next]_vars

\* the field string of the call
SelectString == IF args.fields.k = "list" THEN args.fields.v[1].v ELSE args.fields.v

(***************************************************************************)
(* C15.  Field strings of the select list.                                 *)
(***************************************************************************)
\* C15 as stated: a field string with function-call syntax, a statement terminator, a comment
\* marker, unbalanced backticks, a space or hyphen in the column name, or an alias containing
\* spaces is rejected with ValidationError or PermissionError and no plan is returned
C15_MalformedSelectRejected ==
    (CallEnded /\ SelectString \in MalformedSelect) =>
        (pc = "error" /\ exc \in {"ValidationError", "PermissionError"})

(***************************************************************************)
(* Field strings of the group_by and order_by clauses.                     *)
(***************************************************************************)
MaxClauseLen == 2

BacktickStrings == {"^title^", "^title", "^title x^", "^tabDoc^.^title^", "^tabDoc^.^secret^"}
ClauseStrings == BacktickStrings \cup {"title", "secret"}

\* the comma-separated parts of a clause string
ClauseParts == UNION {[1..n -> ClauseStrings] : n \in 1..MaxClauseLen}

InitClause ==
    /\ InitCall
    /\ \E parts \in ClauseParts, clause \in {"group_by", "order_by"}, d \in {"", "asc", "desc"},
          ip \in BOOLEAN, distinct \in BOOLEAN :
          args = [DefaultArgs EXCEPT
                     !.group_by = IF clause = "group_by" THEN parts ELSE << >>,
                     !.order_by = IF clause = "order_by"
                                  THEN [i \in 1..Len(parts) |-> [field |-> parts[i], direction |-> d]]
                                  ELSE << >>,
                     !.ignore_permissions = ip,
                     !.distinct = distinct]
    /\ \E l1 \in BOOLEAN, db \in {"mariadb", "postgres"} :
          env = [DefaultEnv EXCEPT !.permitted["Doc"] = Permitted("Doc", l1), !.db_type = db]

SpecClause == InitClause /\ [][Next]_vars

\* the field strings of the group_by and order_by arguments of the call
ClauseFields ==
    {args.group_by[i] : i \in 1..Len(args.group_by)}
        \cup {args.order_by[i].field : i \in 1..Len(args.order_by)}

(***************************************************************************)
(* C16.  Backticks in group_by and order_by.                               *)
(***************************************************************************)
\* C16 as stated: a call whose group_by or order_by string has a backtick in every field it
\* names, the table-qualified forms included, ends in ValidationError
C16_BacktickClauseRejected ==
    (CallEnded /\ ClauseFields # {} /\ ClauseFields \subseteq BacktickStrings) =>
        (pc = "error" /\ exc = "ValidationError")

(***************************************************************************)
(* limit and offset.                                                       *)
(***************************************************************************)
\* a Python float, held in tenths
PyFloat(tenths) == [k |-> "float", v |-> tenths]

LimitValues ==
    {PyNone, PyInt(0), PyInt(1), PyInt(2), PyInt(-1), PyStr(""), PyStr("10"), PyFloat(0), PyFloat(15),
     PyFloat(-15), PyList(<< >>), PyList(<<PyInt(1)>>)}

InitLimit ==
    /\ InitCall
    /\ \E limit \in LimitValues, offset \in LimitValues, distinct \in BOOLEAN, ip \in BOOLEAN :
          args = [DefaultArgs EXCEPT !.limit = limit, !.offset = offset, !.distinct = distinct,
                                     !.ignore_permissions = ip]
    /\ env = DefaultEnv

SpecLimit == InitLimit /\ [][Next]_vars

\* a value that was supplied and is not a non-negative integer
NotNonNegativeInteger(x) == x.k # "none" /\ ~(x.k = "int" /\ x.v >= 0)

(***************************************************************************)
(* C17.  limit and offset that are not non-negative integers.              *)
(***************************************************************************)
\* C17 as stated: a call whose limit or offset was supplied and is not a non-negative integer,
\* whatever its truth value, ends in TypeError
C17_BadLimitIsTypeError ==
    (CallEnded /\ (NotNonNegativeInteger(args.limit) \/ NotNonNegativeInteger(args.offset))) =>
        (pc = "error" /\ exc = "TypeError")

(***************************************************************************)
(* Filters that compare a field to None.                                   *)
(***************************************************************************)
NullFields == {"name", "title", "secret", "link_field.public_field", "items.qty"}
NullOperators == {"=", "!="}

\* the forms of one filter comparing the field f to None with the operator op
NullForms(f, op) ==
    {PyList(<<PyList(<<PyStr(f), PyStr(op), PyNone>>)>>),
     PyList(<<PyList(<<PyStr("Doc"), PyStr(f), PyStr(op), PyNone>>)>>),
     PyDict(<< <<f, PyList(<<PyStr(op), PyNone>>)>> >>)}
        \cup (IF op = "=" THEN {PyDict(<< <<f, PyNone>> >>)} ELSE {})

InitNull ==
    /\ InitCall
    /\ \E f \in NullFields, op \in NullOperators, ip \in BOOLEAN :
          \E flt \in NullForms(f, op) : args = [DefaultArgs EXCEPT !.filters = flt, !.ignore_permissions = ip]
    /\ \E l1 \in BOOLEAN, db \in {"mariadb", "postgres"} :
          env = [DefaultEnv EXCEPT !.permitted["Doc"] = Permitted("Doc", l1), !.db_type = db]

SpecNull == InitNull /\ [][Next]_vars

\* the operator of the filter of the call
NullOperator ==
    IF args.filters.k = "dict"
    THEN (IF args.filters.v[1][2] = PyNone THEN "=" ELSE args.filters.v[1][2].v[1].v)
    ELSE args.filters.v[1].v[Len(args.filters.v[1].v) - 1].v

\* the criterion field IS NOT NULL
IsNotNullC(f) == [c |-> "isnotnull", f |-> f]

(***************************************************************************)
(* C18.  Comparison to None.                                               *)
(***************************************************************************)
\* C18 as stated: once a filter comparing a field to None has been applied, the WHERE clause holds
\* field IS NULL for the operator = and field IS NOT NULL for the operator !=
C18_NoneComparison ==
    (pc = "or_filters" /\ args.filters # PyNone /\ NullOperator \in NullOperators) =>
        /\ Len(query.wheres) = 1
        /\ NullOperator = "=" => query.wheres[1] = IsNullC(query.wheres[1].f)
        /\ NullOperator = "!=" => query.wheres[1] = IsNotNullC(query.wheres[1].f)

(***************************************************************************)
(* Running a plan: execute_query and execute_child_queries                 *)
(* (frappe/query_builder/utils.py).  env.rows are the rows of the table of *)
(* the parent entity, env.child_rows the rows of the child table in idx    *)
(* order.  A result row is a dict (a function of its keys) or a tuple.     *)
(***************************************************************************)
DictRow(f) == [k |-> "dict", v |-> f]
TupleRow(q) == [k |-> "tuple", v |-> q]

\* d.key of a frappe._dict: None for a key it does not have
Get(d, key) == IF d.k = "dict" /\ key \in DOMAIN d.v THEN d.v[key] ELSE PyNone

\* del d[key]
Without(d, key) == DictRow([x \in DOMAIN d.v \ {key} |-> d.v[x]])

\* row[key] = value
WithKey(d, key, value) == DictRow([x \in DOMAIN d.v \cup {key} |-> IF x = key THEN value ELSE d.v[x]])

\* str() of a name or of None
str(x) == IF x = PyNone THEN "None" ELSE x.v

ChildColumns == {"parent", "parenttype", "parentfield", "idx", "qty"}

\* the child rows a LEFT JOIN of the plan puts beside the parent row p
JoinedRows(p, joins) ==
    IF \E i \in 1..Len(joins) : joins[i].parenttype # ""
    THEN SelectSeq(env.child_rows,
                   LAMBDA c : \E i \in 1..Len(joins) :
                                 /\ joins[i].parenttype # ""
                                 /\ c.parent = p.name
                                 /\ c.parenttype = PyStr(joins[i].parenttype)
                                 /\ c.parentfield = PyStr(joins[i].parentfield))
    ELSE << >>

\* the value of a select column in the parent row p joined with the child row c
ColumnValue(f, p, c) ==
    IF f.table = "Child" THEN (IF c = PyNone THEN PyNone ELSE c[f.name]) ELSE p[f.name]

\* one row of the result: a dict of the select columns, or their tuple
ResultRow(q, p, c, as_dict) ==
    IF as_dict
    THEN DictRow([x \in {q.select[i].name : i \in 1..Len(q.select)} |->
                     ColumnValue(q.select[CHOOSE i \in 1..Len(q.select) : q.select[i].name = x], p, c)])
    ELSE TupleRow([i \in 1..Len(q.select) |-> ColumnValue(q.select[i], p, c)])

\* the rows of the result that stem from the parent row p
RowsOf(q, p, joined, as_dict) ==
    IF joined = << >> THEN << ResultRow(q, p, PyNone, as_dict) >>
    ELSE [i \in 1..Len(joined) |-> ResultRow(q, p, joined[i], as_dict)]

RECURSIVE db_sql(_, _, _)
\* frappe.local.db.sql on the primary plan: the parent rows the WHERE clause holds in, once for
\* each child row a LEFT JOIN matches
db_sql(q, rows, as_dict) ==
    IF rows = << >> THEN << >>
    ELSE (IF \A i \in 1..Len(q.wheres) : Eval(q.wheres[i], Head(rows))
          THEN RowsOf(q, Head(rows), JoinedRows(Head(rows), q.joins), as_dict)
          ELSE << >>)
         \o db_sql(q, Tail(rows), as_dict)

\* ChildQuery.get_query(parent_names).run(as_dict=1): the rows of the child table under the
\* filters parenttype, parentfield and parent, with the asked columns, parent and parentfield
ChildQuery_run(cq, parent_names) ==
    LET cols == (IF "*" \in SeqToSet(cq.fields) THEN ChildColumns ELSE SeqToSet(cq.fields))
                    \cup {"parent", "parentfield"}
        found == SelectSeq(env.child_rows,
                           LAMBDA c : /\ c.parenttype = PyStr(cq.parent_doctype)
                                      /\ c.parentfield = PyStr(cq.fieldname)
                                      /\ c.parent \in parent_names)
    IN [i \in 1..Len(found) |-> DictRow([x \in cols |-> found[i][x]])]

\* execute_child_queries, lines 137-141: d without the keys the caller did not ask for
Stripped(d, cq) ==
    LET d1 == IF "parent" \notin SeqToSet(cq.fields) THEN Without(d, "parent") ELSE d
    IN IF "parentfield" \notin SeqToSet(cq.fields) THEN Without(d1, "parentfield") ELSE d1

RECURSIVE StitchRow(_, _, _, _, _)
\* the inner loop of execute_child_queries for one row: the children appended to the row, and
\* the data with the keys deleted on the way
StitchRow(done, todo, kids, row, cq) ==
    IF todo = << >> THEN [kids |-> kids, data |-> done]
    ELSE IF /\ str(Get(Head(todo), "parent")) = str(Get(row, "name"))
            /\ Get(Head(todo), "parentfield") = PyStr(cq.fieldname)
    THEN StitchRow(Append(done, Stripped(Head(todo), cq)), Tail(todo),
                   Append(kids, Stripped(Head(todo), cq)), row, cq)
    ELSE StitchRow(Append(done, Head(todo)), Tail(todo), kids, row, cq)

RECURSIVE StitchRows(_, _, _)
\* the loop of execute_child_queries over the rows of the result, for one child query
StitchRows(rows, data, cq) ==
    IF rows = << >> THEN << >>
    ELSE LET m == StitchRow(<< >>, data, << >>, Head(rows), cq)
         IN << WithKey(Head(rows), cq.fieldname, m.kids) >> \o StitchRows(Tail(rows), m.data, cq)

RECURSIVE StitchQueries(_, _, _)
\* the loop of execute_child_queries over the child queries
StitchQueries(queries, rows, parent_names) ==
    IF queries = << >> THEN rows
    ELSE StitchQueries(Tail(queries),
                       StitchRows(rows, ChildQuery_run(Head(queries), parent_names), Head(queries)),
                       parent_names)

execute_child_queries(queries, rows) ==
    IF rows[1].k # "dict" \/ ~Truthy(Get(rows[1], "name")) THEN rows
    ELSE StitchQueries(queries, rows, {Get(rows[i], "name") : i \in 1..Len(rows)})

\* execute_query, given what the primary query returned
execute_query_on(q, rows) ==
    IF q.child_queries # << >> /\ rows # << >> THEN execute_child_queries(q.child_queries, rows)
    ELSE rows

\* OFFSET and LIMIT of the plan, applied by the database to the rows found
Limited(q, rows) ==
    LET skip == IF q.offset = PyNone THEN 0 ELSE IntOf(q.offset)
        last == IF q.limit = PyNone \/ skip + IntOf(q.limit) > Len(rows) THEN Len(rows)
                ELSE skip + IntOf(q.limit)
    IN IF skip >= last THEN << >> ELSE SubSeq(rows, skip + 1, last)

execute_query(q, as_dict) == execute_query_on(q, Limited(q, db_sql(q, env.rows, as_dict)))

\* query.run(as_dict=...) on the plan get_query returned
ExecuteQuery ==
    /\ pc = "done"
    /\ \E as_dict \in BOOLEAN : result' = execute_query(query, as_dict)
    /\ pc' = "ran"
    /\ UNCHANGED <<args, env, exc, fields, query, engine, invitation, outbox, suspended, returned, endpoint>>

NextRun == Next \/ ExecuteQuery

(***************************************************************************)
(* A child-query entry in the select list, and the tables it is run on.    *)
(***************************************************************************)
MaxChildRows == 2

ParentRow(name) == [name |-> PyStr(name), title |-> PyStr("x")]
ParentTables == {<<ParentRow("D1")>>, <<ParentRow("D1"), ParentRow("D2")>>}

ChildRowKinds ==
    [parent : {PyStr("D1"), PyStr("D2")}, parenttype : {PyStr("Doc")},
     parentfield : {PyStr("items"), PyStr("extras")}, qty : {PyInt(1), PyInt(2)}]

\* the rows of the child table, numbered in their order
ChildTables ==
    {[i \in 1..Len(q) |-> [parent |-> q[i].parent, parenttype |-> q[i].parenttype,
                           parentfield |-> q[i].parentfield, idx |-> PyInt(i), qty |-> q[i].qty]] :
        q \in SeqsUpTo(ChildRowKinds, MaxChildRows)}

ChildSelections ==
    {<<PyStr("name"), ChildQueryItem("items", <<"qty">>)>>,
     <<PyStr("name"), ChildQueryItem("items", <<"*">>)>>,
     <<PyStr("name"), ChildQueryItem("items", <<"qty", "parent", "parentfield">>)>>,
     <<PyStr("title"), ChildQueryItem("items", <<"qty">>)>>,
     <<PyStr("name"), PyStr("items.qty"), ChildQueryItem("items", <<"qty">>)>>,
     <<PyStr("name"), PyStr("title")>>}

InitChild ==
    /\ InitCall
    /\ \E fs \in ChildSelections, flt \in {PyNone, PyDict(<< <<"title", PyStr("x")>> >>)} :
          args = [DefaultArgs EXCEPT !.fields = PyList(fs), !.filters = flt]
    /\ \E rows \in ParentTables, child_rows \in ChildTables :
          env = [DefaultEnv EXCEPT !.rows = rows, !.child_rows = child_rows]

SpecChild == InitChild /\ [][NextRun]_vars

\* the child-query entry of the call names the table field with the child fields flds
ChildEntry(table_field) ==
    \E i \in 1..Len(args.fields.v) :
        args.fields.v[i].k = "dict" /\ args.fields.v[i].v[1][1] = table_field

\* the rows of the child table that belong to the parent named name under table_field
ChildrenOf(name, table_field) ==
    SelectSeq(env.child_rows,
              LAMBDA c : c.parent = name /\ c.parentfield = PyStr(table_field)
                           /\ c.parenttype = PyStr(args.table))

(***************************************************************************)
(* C19.  Child queries.                                                    *)
(***************************************************************************)
\* C19 as stated: a field entry {items: [child fields]} adds no JOIN to the primary query, and
\* after the query ran every returned row that carries its name carries under items exactly the
\* child rows whose parent is that name and whose parentfield is items, in their order
C19_ChildRowsStitched ==
    (pc = "ran" /\ ChildEntry("items")) =>
        /\ (\A i \in 1..Len(args.fields.v) : args.fields.v[i] # PyStr("items.qty")) => query.joins = << >>
        /\ \A i \in 1..Len(result) :
              (result[i].k = "dict" /\ Truthy(Get(result[i], "name"))) =>
                  /\ "items" \in DOMAIN result[i].v
                  /\ Len(result[i].v["items"]) = Len(ChildrenOf(Get(result[i], "name"), "items"))
                  /\ \A j \in 1..Len(result[i].v["items"]) :
                        Get(result[i].v["items"][j], "qty")
                            = ChildrenOf(Get(result[i], "name"), "items")[j].qty

(***************************************************************************)
(* User Invitation (frappe/core/doctype/user_invitation/user_invitation.py *)
(* and frappe/core/api/user_invitation.py).  Of the document named n,      *)
(* invitation[n].status is the status of the loaded document, .saved the   *)
(* status of its row ("" before it is inserted), and .call the last call   *)
(* made on it: the operation, the saved status it met, whether             *)
(* validate_role allowed the caller, and the exception it raised.          *)
(***************************************************************************)
Emails == {"a@example.com", "b@example.com"}
Pending == "Pending"
Terminal == {"Accepted", "Expired", "Cancelled"}

Call(op, on, allowed, raised) == [op |-> op, on |-> on, allowed |-> allowed, raised |-> raised]
Mail(template, recipients) == [template |-> template, recipients |-> recipients]

\* UserInvitation._validate_invite: no accepted and no pending invitation of the email among the
\* rows; enabled: the user of the email is not disabled
_validate_invite(rows, email, enabled) ==
    /\ ~\E n \in DOMAIN rows : rows[n].email = email /\ rows[n].saved = "Accepted" /\ rows[n].user # ""
    /\ ~\E n \in DOMAIN rows : rows[n].email = email /\ rows[n].saved = Pending
    /\ enabled

\* what a method of the document leaves behind: the document, the emails sent, the exception
Outcome(d, mail, raised) == [doc |-> d, mail |-> mail, raised |-> raised]

\* UserInvitation.before_insert and after_insert
insert(d, email, valid) ==
    IF ~valid THEN Outcome(d, << >>, "ValidationError")
    ELSE Outcome([d EXCEPT !.status = Pending, !.saved = Pending, !.email = email],
                 << Mail("user_invitation", email) >>, "")

\* UserInvitation._accept
_accept(d) ==
    IF d.status = "Accepted" THEN [doc |-> d, accepted_now |-> FALSE, raised |-> ""]
    ELSE IF d.status = "Expired" THEN [doc |-> d, accepted_now |-> FALSE, raised |-> "ValidationError"]
    ELSE IF d.status = "Cancelled" THEN [doc |-> d, accepted_now |-> FALSE, raised |-> "ValidationError"]
    ELSE [doc |-> [d EXCEPT !.status = "Accepted", !.user = d.email], accepted_now |-> TRUE, raised |-> ""]

\* UserInvitation.accept after _accept answered a; user_ok: _upsert_user did not raise
accept_rest(a, user_ok) ==
    IF a.raised # "" THEN Outcome(a.doc, << >>, a.raised)
    ELSE IF ~a.accepted_now THEN Outcome(a.doc, << >>, "")
    ELSE IF ~user_ok THEN Outcome(a.doc, << >>, "PermissionError")
    ELSE Outcome([a.doc EXCEPT !.saved = a.doc.status], << >>, "")

\* UserInvitation.accept
accept(d, user_ok) == accept_rest(_accept(d), user_ok)

\* a cancel_invite without its guard on the status
cancel_invite_unguarded(d) ==
    Outcome([d EXCEPT !.status = "Cancelled", !.saved = "Cancelled"],
            << Mail("user_invitation_cancelled", d.email) >>, "")

\* UserInvitation.cancel_invite
cancel_invite(d) ==
    IF d.status # Pending THEN Outcome(d, << >>, "")
    ELSE Outcome([d EXCEPT !.status = "Cancelled", !.saved = "Cancelled"],
                 << Mail("user_invitation_cancelled", d.email) >>, "")

\* UserInvitation.expire: the email goes to the user who invited
expire(d) ==
    IF d.status # Pending THEN Outcome(d, << >>, "")
    ELSE Outcome([d EXCEPT !.status = "Expired", !.saved = "Expired"],
                 << Mail("user_invitation_expired", "invited_by") >>, "")

\* frappe.get_doc("User Invitation", name), invitation.reload(): the document as its row has it
get_doc(d) == [d EXCEPT !.status = d.saved, !.user = IF d.saved = "Accepted" THEN d.email ELSE ""]

\* cancel_invitation of the API on the freshly loaded document d
cancel_invitation_on(d) ==
    IF d.status = "Cancelled" THEN Outcome(d, << >>, "")
    ELSE IF d.status # Pending THEN Outcome(d, << >>, "ValidationError")
    ELSE cancel_invite(d)

\* frappe.core.api.user_invitation.cancel_invitation
cancel_invitation(d, allowed) ==
    IF ~allowed THEN Outcome(d, << >>, "PermissionError")
    ELSE cancel_invitation_on(get_doc(d))

\* the state after the call op that met the document named n and left the outcome o
Called(n, op, allowed, o) ==
    /\ invitation' = [invitation EXCEPT
                         ![n] = [o.doc EXCEPT !.call = Call(op, invitation[n].saved, allowed, o.raised)]]
    /\ outbox' = outbox \o [i \in 1..Len(o.mail) |-> [name |-> n, mail |-> o.mail[i]]]
    /\ UNCHANGED <<args, env, pc, exc, fields, query, engine, result, suspended, returned, endpoint>>

Insert ==
    \E n \in InvitationNames, email \in Emails, enabled \in BOOLEAN :
        /\ invitation[n].saved = ""
        /\ Called(n, "insert", TRUE,
                  insert(invitation[n], email, _validate_invite(invitation, email, enabled)))

Accept ==
    \E n \in InvitationNames, user_ok \in BOOLEAN :
        /\ invitation[n].saved # ""
        /\ Called(n, "accept", TRUE, accept(invitation[n], user_ok))

CancelInvite ==
    \E n \in InvitationNames :
        /\ invitation[n].saved # ""
        /\ Called(n, "cancel_invite", TRUE, cancel_invite(invitation[n]))

Expire ==
    \E n \in InvitationNames :
        /\ invitation[n].saved # ""
        /\ Called(n, "expire", TRUE, expire(invitation[n]))

CancelInvitation ==
    \E n \in InvitationNames, allowed \in BOOLEAN :
        /\ invitation[n].saved # ""
        /\ Called(n, "cancel_invitation", allowed, cancel_invitation(invitation[n], allowed))

Reload ==
    \E n \in InvitationNames :
        /\ invitation[n].saved # ""
        /\ Called(n, "reload", TRUE, Outcome(get_doc(invitation[n]), << >>, ""))

NextInvitation ==
    \/ Insert
    \/ Accept
    \/ CancelInvite
    \/ Expire
    \/ CancelInvitation
    \/ Reload

InitInvitation ==
    /\ InitCall
    /\ args = DefaultArgs
    /\ env = DefaultEnv

SpecInvitation == InitInvitation /\ [][NextInvitation]_vars

(***************************************************************************)
(* C20.  The status of an invitation.                                      *)
(***************************************************************************)
\* the emails sent for the invitation named n
MailsOf(box, n) == SelectSeq(box, LAMBDA m : m.name = n)

\* the saved status of n only moves from Pending to Accepted, Expired or Cancelled, and once it is
\* one of these no call changes the status of the row or of the document or sends an email for it
StatusIsFinal(n) ==
    /\ (invitation'[n].saved # invitation[n].saved /\ invitation[n].saved # "") =>
           (invitation[n].saved = Pending /\ invitation'[n].saved \in Terminal)
    /\ invitation[n].saved \in Terminal =>
           /\ invitation'[n].saved = invitation[n].saved
           /\ invitation'[n].status = invitation[n].status
           /\ MailsOf(outbox', n) = MailsOf(outbox, n)

\* the last call on n met a saved status that was final, from a caller validate_role allowed
CalledOnFinal(n) == invitation[n].call.on \in Terminal /\ invitation[n].call.allowed

AcceptRaised(n) ==
    invitation[n].call.op = "accept" /\ invitation[n].call.on \in {"Expired", "Cancelled"}
CancelInvitationRaised(n) ==
    invitation[n].call.op = "cancel_invitation" /\ invitation[n].call.on \in {"Accepted", "Expired"}

\* C20 as stated: the status only moves from Pending to Accepted, Expired or Cancelled and is final
\* then, no further email is sent, and of the calls on a final status only accept on Expired or
\* Cancelled raises
C20_FinalAndOnlyAcceptRaises ==
    /\ [][\A n \in InvitationNames : StatusIsFinal(n)]_vars
    /\ [](\A n \in InvitationNames :
             CalledOnFinal(n) => (invitation[n].call.raised # "" <=> AcceptRaised(n)))

\* C20: the status only moves from Pending to Accepted, Expired or Cancelled and is final then, no
\* further email is sent; of the calls on a final status accept on Expired or Cancelled raises,
\* cancel_invitation on Accepted or Expired raises, and every other call is a no-op
C20_FinalStatus ==
    /\ [][\A n \in InvitationNames : StatusIsFinal(n)]_vars
    /\ [](\A n \in InvitationNames :
             CalledOnFinal(n) =>
                 (invitation[n].call.raised # "" <=> (AcceptRaised(n) \/ CancelInvitationRaised(n))))

\* an expired invitation on which cancel_invite was called: still Expired, with the two emails of
\* the invitation and of the expiry
C20_Witness ==
    /\ invitation["inv1"].saved = "Expired" /\ invitation["inv1"].status = "Expired"
    /\ invitation["inv1"].call = Call("cancel_invite", "Expired", TRUE, "")
    /\ Len(MailsOf(outbox, "inv1")) = 2

(***************************************************************************)
(* C21.  No role-level permission: shared documents only.                  *)
(***************************************************************************)
\* C21: with permissions enforced and neither read nor select held at role level, a call with no
\* shared documents ends in PermissionError; otherwise the plan is returned and a row satisfies its
\* WHERE clause exactly when it satisfies the caller's filters and its name is a shared document,
\* whatever the owner, the user permissions, the hooks and the script say
C21_SharedOnly ==
    (CallEnded /\ apply_permissions /\ ~HasRolePermission) =>
        /\ env.shared = << >> => (pc = "error" /\ exc = "PermissionError")
        /\ env.shared # << >> =>
              /\ Returned
              /\ Len(query.wheres) = CallerFilterCount + 1
              /\ \A row \in PermRows :
                    WhereHolds(row) <=> (CallerFiltersHold(row) /\ row.name \in SharedNames)

\* a plan returned to a user without role-level permission who has a shared document, an
\* applicable user permission and a hook condition: the plan holds the shared condition alone
C21_Witness ==
    /\ Returned /\ apply_permissions /\ ~HasRolePermission
    /\ env.shared # << >>
    /\ env.hooks # << >>
    /\ \E d \in Doctypes : env.user_permissions[d] # << >>
    /\ PermissionRestriction = {Cmp(Field("Doc", "name"), "in", StrList(env.shared))}

(***************************************************************************)
(* References to the child table: through the Table field (items.qty, a    *)
(* filter naming the child entity, a filter on a field only the child      *)
(* has), and by the table name (tabChild.qty).                             *)
(***************************************************************************)
ChildRefs == {"items.qty", "tabChild.qty", "title"}
ChildFilters ==
    {PyNone, PyDict(<< <<"items.qty", PyInt(1)>> >>), PyDict(<< <<"qty", PyInt(1)>> >>),
     PyList(<<PyList(<<PyStr("Child"), PyStr("qty"), PyStr("="), PyInt(1)>>)>>)}

InitChildJoin ==
    /\ InitCall
    /\ \E fs \in SeqsUpTo(ChildRefs, MaxJoinFields), flt \in ChildFilters, gb \in {"", "items.qty"},
          ip \in BOOLEAN :
          args = [DefaultArgs EXCEPT
                     !.fields = IF fs = << >> THEN PyNone ELSE PyList([i \in 1..Len(fs) |-> PyStr(fs[i])]),
                     !.filters = flt,
                     !.group_by = IF gb = "" THEN << >> ELSE <<gb>>,
                     !.ignore_permissions = ip]
    /\ \E l1 \in BOOLEAN :
          env = [DefaultEnv EXCEPT !.permitted["Child"] = Permitted("Child", l1)]

SpecChildJoin == InitChildJoin /\ [][Next]_vars

\* a reference made through the Table field items of the base entity has been applied to the plan
TableFieldReferenceApplied ==
    \/ pc \notin {"setup", "fields", "error"} /\ "items.qty" \in FieldRefs
    \/ pc \notin {"setup", "fields", "filters", "error"} /\ args.filters \in ChildFilters \ {PyNone}
    \/ pc \in {"order_by", "permissions", "finish", "done"} /\ GroupByRefs # {}

(***************************************************************************)
(* C22.  The ON predicate of a child-table join.                           *)
(***************************************************************************)
\* C22 as stated: every LEFT JOIN of the child table is on child.parent = base.name and
\* child.parenttype = the base entity, and also on child.parentfield = items whenever a reference
\* through the Table field items has been applied to the plan, whatever was applied before it
C22_ChildJoinPredicate ==
    \A i \in JoinsTo("Child") :
        /\ query.joins[i].how = "left" /\ query.joins[i].main = "Doc"
        /\ query.joins[i].on_left = "parent" /\ query.joins[i].on_right = "name"
        /\ query.joins[i].parenttype = "Doc"
        /\ TableFieldReferenceApplied => query.joins[i].parentfield = "items"

(***************************************************************************)
(* Default ordering: calls that leave order_by unspecified.                *)
(***************************************************************************)
\* order_by left out (None), or left at the DefaultOrderBy sentinel of the list API
UnspecifiedOrderBy == {<< >>, << [field |-> DefaultOrderBy, direction |-> ""] >>}

OrderFieldLists == {PyList(<<PyStr("title")>>), PyList(<<PyStr("name")>>),
                    PyList(<<PyStr("name"), PyStr("title")>>)}

InitOrder ==
    /\ InitCall
    /\ \E ob \in UnspecifiedOrderBy \cup {<< [field |-> "title", direction |-> "asc"] >>},
          fs \in OrderFieldLists, gb \in {<< >>, <<"title">>}, distinct \in BOOLEAN, ip \in BOOLEAN :
          args = [DefaultArgs EXCEPT !.order_by = ob, !.fields = fs, !.group_by = gb,
                                     !.distinct = distinct, !.ignore_permissions = ip]
    /\ \E db \in {"mariadb", "postgres"}, sf \in {"modified", "title"}, so \in {"asc", "desc"} :
          env = [DefaultEnv EXCEPT !.db_type = db, !.sort_field = sf, !.sort_order = so]

SpecOrder == InitOrder /\ [][Next]_vars

\* the default sort field is one of the selected columns
SortFieldSelected ==
    \E i \in DOMAIN query.select : query.select[i] = Field(engine.doctype, env.sort_field)

\* C23: a returned plan of a call without order_by is ordered by the doctype's default sort field
\* and direction, except on Postgres with DISTINCT or GROUP BY and the sort field not selected,
\* where it has no ordering
C23_DefaultOrdering ==
    (Returned /\ args.order_by \in UnspecifiedOrderBy) =>
        IF env.db_type = "postgres" /\ (args.distinct \/ args.group_by # << >>) /\ ~SortFieldSelected
        THEN query.orderby = << >>
        ELSE query.orderby = _apply_default_order_by

(***************************************************************************)
(* Entity names: the ways a call can name its entity.                      *)
(***************************************************************************)
EntityNames == {"Doc", "Doc;x", "Doc_x", "Doc-x 1"}

InitEntity ==
    /\ InitCall
    /\ \E table \in EntityNames, obj \in BOOLEAN, fs \in OrderFieldLists, distinct \in BOOLEAN,
          lim \in {PyNone, PyInt(1), PyInt(2)} :
          args = [DefaultArgs EXCEPT !.table = table, !.table_object = obj, !.fields = fs,
                                     !.distinct = distinct, !.limit = lim]
    /\ env = DefaultEnv

SpecEntity == InitEntity /\ [][Next]_vars

\* the characters the entity name may consist of: ASCII letters, digits, spaces and hyphens
EntityNameChars == WordChars \ {"_"}

HasOtherCharacter(name) ==
    \E i \in 1..Len(TableNameChars(name)) : TableNameChars(name)[i] \notin EntityNameChars

\* C24: a call whose entity name has a character other than ASCII letters, digits, spaces and
\* hyphens builds nothing: it is still to be set up, or it has failed with the plan untouched
C24_EntityNameRejected ==
    HasOtherCharacter(args.table) => (pc = "setup" \/ (pc = "error" /\ query = EmptyQuery))

(***************************************************************************)
(* Comparison operators of filter leaves.                                  *)
(***************************************************************************)
LeafOperators == {"=", "!=", "like", "~~", "=="}

\* {f: (op, "x")}, [[f, op, "x"]], [["Doc", f, op, "x"]], [[f, op, "x"], ["owner", op2, "y"]] and
\* [[f, op, "x"], "and", ["owner", op2, "y"]]
DictLeaf(f, op) == DictForm(f, PyList(<<PyStr(op), PyStr("x")>>))
FlatLeaf(f, op) == PyList(<<Cond3(f, op, "x")>>)
FlatDoctypeLeaf(f, op) == PyList(<<PyList(<<PyStr("Doc"), PyStr(f), PyStr(op), PyStr("x")>>)>>)
FlatLeaves(f, op, op2) == PyList(<<Cond3(f, op, "x"), Cond3("owner", op2, "y")>>)
TreeLeaf(f, op, op2) == Tree(PyStr(f), op, PyStr("x"), "and", PyStr("owner"), op2, PyStr("y"))

OperatorFilters(ops) ==
    {DictLeaf(f, op) : f \in {"title", "name"}, op \in ops}
        \cup {FlatLeaf(f, op) : f \in {"title", "name"}, op \in ops}
        \cup {FlatDoctypeLeaf(f, op) : f \in {"title", "name"}, op \in ops}
        \cup {FlatLeaves(f, op, op2) : f \in {"title", "name"}, op \in ops, op2 \in LeafOperators}
        \cup {FlatLeaves(f, op2, op) : f \in {"title", "name"}, op \in ops, op2 \in LeafOperators}
        \cup {TreeLeaf(f, op, op2) : f \in {"title", "name"}, op \in ops, op2 \in LeafOperators}
        \cup {TreeLeaf(f, op2, op) : f \in {"title", "name"}, op \in ops, op2 \in LeafOperators}

InitOperator ==
    /\ InitCall
    /\ \E f \in OperatorFilters(LeafOperators), ip \in BOOLEAN :
          args = [DefaultArgs EXCEPT !.filters = f, !.ignore_permissions = ip]
    /\ \E db \in {"mariadb", "postgres"} : env = [DefaultEnv EXCEPT !.db_type = db]

SpecOperator == InitOperator /\ [][Next]_vars

\* the filters of the call have a leaf whose operator is not a supported one
HasUnsupportedOperator == args.filters \in OperatorFilters(LeafOperators \ OPERATOR_MAP)

\* C25: a call whose filters have a leaf with an unsupported comparison operator does not get
\* past the filters stage: it raises ValidationError there, in the dict, flat list and nested forms
C25_UnsupportedOperatorRejected ==
    HasUnsupportedOperator =>
        \/ pc \in {"setup", "fields", "filters"}
        \/ pc = "error" /\ exc = "ValidationError"

(***************************************************************************)
(* Aliases of function and operator dicts.                                 *)
(***************************************************************************)
AliasValues == {PyNone, PyStr("total"), PyStr("cnt"), PyStr("title;"), PyStr("select"), PyStr("order"),
                PyInt(1)}

AliasEntries ==
    {<<"COUNT", PyStr("*")>>, <<"SUM", PyStr("title")>>, <<"SUM", PyStr("secret")>>,
     <<"ADD", PyList(<<PyInt(1), PyStr("title")>>)>>, <<"DROP", PyStr("title")>>}

InitAlias ==
    /\ InitCall
    /\ \E entry \in AliasEntries, alias \in AliasValues, gb \in {<< >>, <<"total">>, <<"select">>},
          ip \in BOOLEAN :
          args = [DefaultArgs EXCEPT !.fields = PyList(<<DictItem(entry[1], entry[2], alias)>>),
                                     !.group_by = gb,
                                     !.ignore_permissions = ip]
    /\ \E l1 \in BOOLEAN :
          env = [DefaultEnv EXCEPT !.permitted["Doc"] = Permitted("Doc", l1)]

SpecAlias == InitAlias /\ [][Next]_vars

\* the SQL reserved words among the strings of the model
ReservedWords == {"select", "order"}

\* the alias of the dict the call selects
GivenAlias == alias_keys(args.fields.v[1])[1][2]
AliasGiven == alias_keys(args.fields.v[1]) # << >>

\* a plain identifier that is not a reserved word
AcceptableAlias(alias) == IsStr(alias) /\ IDENTIFIER_PATTERN(alias.v) /\ alias.v \notin ReservedWords

\* C26: a function or operator dict whose alias is not a plain identifier, or is a reserved word,
\* makes the parsing of the fields raise ValidationError, and no alias is registered
C26_AliasAccepted ==
    (AliasGiven /\ ~AcceptableAlias(GivenAlias)) =>
        \/ pc \in {"setup", "fields"}
        \/ /\ pc = "error" /\ exc = "ValidationError"
           /\ engine.function_aliases = {} /\ engine.field_aliases = {}

(***************************************************************************)
(* Several get_query calls: two concurrent requests, each calling           *)
(* frappe.qb.get_query, the running one in args .. engine and the other one *)
(* in suspended.                                                            *)
(***************************************************************************)
MaxCalls == 3

CallArgs ==
    {[DefaultArgs EXCEPT !.mode = "update"],
     [DefaultArgs EXCEPT !.fields = PyList(<<PyStr("title as t1")>>), !.group_by = <<"t1">>],
     [DefaultArgs EXCEPT !.fields = PyList(<<PyStr("name")>>), !.group_by = <<"t1">>],
     [DefaultArgs EXCEPT !.fields = PyList(<<PyStr("items.qty"), PyStr("secret")>>),
                         !.ignore_permissions = FALSE],
     [DefaultArgs EXCEPT !.fields = PyList(<<PyStr("tabChild.qty")>>), !.ignore_permissions = FALSE]}

\* a get_query call: its arguments, the attributes of its Engine instance and where it stands
Request(a, p, x, f, q, e) == [args |-> a, pc |-> p, exc |-> x, fields |-> f, query |-> q, engine |-> e]

\* Engine() in frappe.qb.get_query: an instance without attributes
NewEngine_reused == [engine |-> engine, fields |-> fields, query |-> query]
NewEngine == [engine |-> EmptyEngine, fields |-> << >>, query |-> EmptyQuery]

\* what an ended call gave its caller: the exception, or the plan
CallOutcome(r) == [args |-> r.args, exc |-> r.exc, query |-> IF r.pc = "done" THEN r.query ELSE EmptyQuery]

\* frappe.qb.get_query called again by the running request, after its previous call ended
GetQuery ==
    /\ CallEnded
    /\ Len(returned) + 1 + (IF suspended = NoRequest THEN 0 ELSE 1) < MaxCalls
    /\ returned' = Append(returned, CallOutcome(Request(args, pc, exc, fields, query, engine)))
    /\ \E a \in CallArgs : args' = a
    /\ pc' = "setup"
    /\ exc' = ""
    /\ engine' = NewEngine.engine
    /\ fields' = NewEngine.fields
    /\ query' = NewEngine.query
    /\ UNCHANGED <<env, result, invitation, outbox, suspended, endpoint>>

\* the scheduler lets the other request run: each request keeps its own call and Engine instance
Switch ==
    /\ suspended # NoRequest
    /\ suspended' = Request(args, pc, exc, fields, query, engine)
    /\ args' = suspended.args
    /\ pc' = suspended.pc
    /\ exc' = suspended.exc
    /\ fields' = suspended.fields
    /\ query' = suspended.query
    /\ engine' = suspended.engine
    /\ UNCHANGED <<env, result, invitation, outbox, returned, endpoint>>

NextCalls == Next \/ GetQuery \/ Switch

InitCalls ==
    /\ pc = "setup" /\ exc = "" /\ fields = << >> /\ query = EmptyQuery /\ engine = EmptyEngine
    /\ result = << >> /\ invitation = [n \in InvitationNames |-> NoInvitation] /\ outbox = << >>
    /\ returned = << >> /\ endpoint = NoRest
    /\ args \in CallArgs
    /\ \E a \in CallArgs : suspended = Request(a, "setup", "", << >>, EmptyQuery, EmptyEngine)
    /\ \E l1 \in BOOLEAN : env = [DefaultEnv EXCEPT !.permitted["Doc"] = Permitted("Doc", l1)]

SpecCalls == InitCalls /\ [][NextCalls]_vars

\* what the calls that have ended gave their callers
Outcomes ==
    {returned[i] : i \in DOMAIN returned}
        \cup (IF CallEnded THEN {CallOutcome(Request(args, pc, exc, fields, query, engine))} ELSE {})
        \cup (IF suspended # NoRequest /\ suspended.pc \in {"done", "error"} THEN {CallOutcome(suspended)} ELSE {})

\* C27: whatever other calls ran before a call or between its steps, calls with the same arguments
\* (the collaborators' answers being the same) gave the same plan or the same exception
C27_CallsIndependent ==
    \A o1 \in Outcomes, o2 \in Outcomes : o1.args = o2.args => o1 = o2

\* a call ended with the arguments of an earlier call, after the other request ran a different call
\* part of the way
C27_Witness ==
    /\ CallEnded /\ returned # << >>
    /\ \E i \in DOMAIN returned : returned[i].args = args
    /\ suspended # NoRequest /\ suspended.args # args
    /\ suspended.pc \notin {"setup", "done", "error"}

(***************************************************************************)
(* Flat lists of conditions and boolean operators.                         *)
(***************************************************************************)
\* [A, o1, B, o2, C]
Flat(a, o1, b, o2, c) == PyList(<<a, PyStr(o1), b, PyStr(o2), c>>)

FlatLists ==
    {Flat(a, o1, b, o2, c) :
        a \in Leaves("name"), b \in Leaves("owner"), c \in Leaves("title"),
        o1 \in {"and", "or", "OR"}, o2 \in {"and", "or", "AND"}}

InitFlat ==
    /\ InitCall
    /\ \E f \in FlatLists, ip \in BOOLEAN :
          args = [DefaultArgs EXCEPT !.filters = f, !.ignore_permissions = ip]
    /\ \E l1 \in BOOLEAN :
          env = [DefaultEnv EXCEPT !.permitted["Doc"] = Permitted("Doc", l1)]

SpecFlat == InitFlat /\ [][Next]_vars

\* the filters argument is [A, o1, B, o2, C]
FlatCall ==
    /\ args.filters.k = "list" /\ Len(args.filters.v) = 5
    /\ IsLeaf(args.filters.v[1]) /\ IsLeaf(args.filters.v[3]) /\ IsLeaf(args.filters.v[5])

FlatOperator(i) == lower(args.filters.v[i].v)

\* a and b combined by the operator at position i
Combined(i, a, b) == IF FlatOperator(i) = "and" THEN a /\ b ELSE a \/ b

\* (A o1 B) o2 C in a row
FlatHolds(row) ==
    Combined(4, Combined(2, LeafHolds(args.filters.v[1], row), LeafHolds(args.filters.v[3], row)),
             LeafHolds(args.filters.v[5], row))

\* C28: the flat list [A, o1, B, o2, C] yields one WHERE condition, true of a row exactly when
\* (A o1 B) o2 C is: the operators are applied strictly left to right, "and" taking no precedence
\* over "or"; without permission checks the call returns
C28_LeftToRight ==
    /\ (FlatCall /\ FiltersDone) =>
          \A row \in FilterRows : Eval(query.wheres[1], row) <=> FlatHolds(row)
    /\ (FlatCall /\ CallEnded /\ ~apply_permissions) => pc = "done" /\ Len(query.wheres) = 1

\* a plan returned for [A, "or", B, "and", C], with a row that has A but neither B nor C:
\* the row is not matched, as (A or B) and C says and A or (B and C) does not
C28_Witness ==
    /\ FlatCall /\ pc = "done"
    /\ FlatOperator(2) = "or" /\ FlatOperator(4) = "and"
    /\ \E row \in FilterRows :
          /\ LeafHolds(args.filters.v[1], row)
          /\ ~LeafHolds(args.filters.v[3], row)
          /\ ~LeafHolds(args.filters.v[5], row)
          /\ ~Eval(query.wheres[1], row)

(***************************************************************************)
(* Child-table queries run with parent_doctype.                            *)
(***************************************************************************)
InitParent ==
    /\ InitCall
    /\ \E fs \in {PyNone, PyList(<<PyStr("qty")>>), PyList(<<PyStr("name"), PyStr("qty")>>)},
          ip \in BOOLEAN, iup \in BOOLEAN :
          args = [DefaultArgs EXCEPT !.table = "Child", !.parent_doctype = "Doc", !.fields = fs,
                                     !.ignore_permissions = ip, !.ignore_user_permissions = iup]
    /\ \E role \in RolePermissions, shared \in {<< >>, <<"d2">>}, hooks \in HookChoices :
          env = [DefaultEnv EXCEPT !.role["Doc"] = role, !.shared = shared, !.hooks = hooks]

SpecParent == InitParent /\ [][Next]_vars

\* the child rows: the name of the parent document and the entity it belongs to
ChildDocRows == [parent : {PyStr("d1"), PyStr("d2")}, parenttype : {"Doc", "Target"}]

\* the ON predicate of the join j to the parent table, for the child row r and the parent row p
JoinOnHolds(j, r, p) ==
    /\ p[j.on_left] = r[j.on_right]
    /\ j.parenttype # "" => r.parenttype = j.parenttype

\* the plan matches the child row r through the row p of the parent_doctype table
Matches(r, p) ==
    /\ \A i \in JoinsTo(args.parent_doctype) : JoinOnHolds(query.joins[i], r, p)
    /\ WhereHolds(p)

\* C29: in a plan returned for a child-table query with parent_doctype under enforced permissions,
\* a child row is matched only through a parent_doctype document it belongs to (its parent is the
\* document's name and its parenttype is parent_doctype) that satisfies the permission conditions
C29_ChildOfPermittedParent ==
    (Returned /\ apply_permissions /\ args.parent_doctype # "" /\ args.parent_doctype # args.table) =>
        /\ JoinsTo(args.parent_doctype) # {}
        /\ \A r \in ChildDocRows, p \in PermRows :
              Matches(r, p) =>
                  /\ r.parent = p.name
                  /\ r.parenttype = args.parent_doctype
                  /\ \A c \in PermissionRestriction : Eval(c, p)

(***************************************************************************)
(* The REST endpoint document_list (api/v2.py).                            *)
(***************************************************************************)
MaxListRows == 3

\* cint(form_dict limit), 20 when the request has none, and cint(form_dict start)
LimitRequests == {-2, -1, 0, 1, 2, 20}
StartRequests == {0, 1}

ListRow(name, title) == [name |-> PyStr(name), title |-> PyStr(title)]
ListRowKinds == {ListRow(n, t) : n \in {"D1", "D2"}, t \in {"x", "y"}}
ListTables == SeqsUpTo(ListRowKinds, MaxListRows)

\* data[:n] of Python
Slice(data, n) ==
    IF n >= 0 THEN SubSeq(data, 1, IF n < Len(data) THEN n ELSE Len(data))
    ELSE SubSeq(data, 1, IF Len(data) + n > 0 THEN Len(data) + n ELSE 0)

\* document_list, lines 117-135: the form_dict is read and get_query is called
DocumentListQuery ==
    /\ pc = "request"
    /\ args' = [args EXCEPT !.limit = PyInt(endpoint.limit + 1), !.offset = PyInt(endpoint.start),
                            !.ignore_permissions = FALSE]
    /\ pc' = "setup"
    /\ UNCHANGED <<env, exc, fields, query, engine, result, invitation, outbox, suspended, returned, endpoint>>

\* document_list given the rows query.run returned
document_list_on(data) ==
    [endpoint EXCEPT !.responded = TRUE,
                     !.has_next_page = Len(data) > endpoint.limit,
                     !.data = Slice(data, endpoint.limit)]

\* document_list, lines 157-159, for a controller without get_list: the plan is run and the
\* response is made
DocumentListRun ==
    /\ pc = "done"
    /\ result' = execute_query(query, endpoint.as_dict)
    /\ endpoint' = document_list_on(execute_query(query, endpoint.as_dict))
    /\ pc' = "ran"
    /\ UNCHANGED <<args, env, exc, fields, query, engine, invitation, outbox, suspended, returned>>

NextList == Next \/ DocumentListQuery \/ DocumentListRun

InitList ==
    /\ pc = "request" /\ exc = "" /\ fields = << >> /\ query = EmptyQuery /\ engine = EmptyEngine
    /\ result = << >> /\ invitation = [n \in InvitationNames |-> NoInvitation] /\ outbox = << >>
    /\ suspended = NoRequest /\ returned = << >>
    /\ \E fs \in {PyList(<<PyStr("name")>>), PyList(<<PyStr("name"), PyStr("title")>>)},
          flt \in {PyNone, PyDict(<< <<"title", PyStr("x")>> >>)} :
          args = [DefaultArgs EXCEPT !.fields = fs, !.filters = flt]
    /\ \E limit \in LimitRequests, start \in StartRequests, as_dict \in BOOLEAN :
          endpoint = [NoRest EXCEPT !.limit = limit, !.start = start, !.as_dict = as_dict]
    /\ \E rows \in ListTables : env = [DefaultEnv EXCEPT !.rows = rows]

SpecList == InitList /\ [][NextList]_vars

\* the number of rows that match the filters of the request
MatchCount ==
    Len(SelectSeq(env.rows, LAMBDA row : args.filters = PyNone \/ row.title = PyStr("x")))

\* the number of matching rows from the requested start on
MatchCountFromStart == IF MatchCount > endpoint.start THEN MatchCount - endpoint.start ELSE 0

\* C30: whatever limit was requested, the response of document_list has at most max(limit, 0)
\* rows, and has_next_page is true exactly when more rows match from the requested start on than
\* the response has
C30_PageWithinLimit ==
    endpoint.responded =>
        /\ Len(endpoint.data) <= (IF endpoint.limit > 0 THEN endpoint.limit ELSE 0)
        /\ endpoint.has_next_page <=> (MatchCountFromStart > Len(endpoint.data))
====
